---- MODULE Spec2Model ----
(***************************************************************************)
(* A model of SoraYT_Studio (src/unnamed/part_000): the slot allocator     *)
(* (calculateNextSlot), the task matcher (handleSoraPoll and the extract*  *)
(* functions) and the artifact fetcher (handleSoraDownloadAndRename,       *)
(* downloadFileWithProgress) with the videos.json store they work on, the  *)
(* other handlers that rewrite the store (handleSoraHistoryBatch,          *)
(* handleManualSchedule, handleVideoDelete) and the batch run              *)
(* (processScheduleAndUpload).                                             *)
(*                                                                         *)
(* Instants are whole minutes since 00:00 UTC of day 0 of the model.  The  *)
(* zero time.Time is the instant ZeroTime, earlier than every other one.   *)
(* Text is a sequence of one-character strings.                            *)
(***************************************************************************)
EXTENDS Integers, Sequences, FiniteSets, TLC

VARIABLES
    ScheduleSlots,  \* youtubeConfig.ScheduleSlots, each entry split at ":"
    slotCall,       \* the last call of calculateNextSlot: its input and result
    slotChain,      \* nextSlot applied to its own output: the outputs so far
    mailbox,        \* the generation service's mailbox: the completion feed
    pollCall,       \* the last request served by handleSoraPoll and its response
    videos,         \* videos.json: the persisted sequence of VideoConfig
    files,          \* the download directory: file name -> size, NoFile when absent
    transfers,      \* number of calls of downloadFileWithProgress so far
    dlCall,         \* the last request served by handleSoraDownloadAndRename
    env,            \* what a batch run is given: limit, start date, the hosting
                    \* service's latest publish time and the files it rejects
    run,            \* processScheduleAndUpload: its local variables and position
    uploads,        \* the hosting service: the videos inserted, in order
    archive,        \* the names of the files moved to ArchiveFolder
    lastOp          \* the last request that rewrote the store, and the store before

vars == <<ScheduleSlots, slotCall, slotChain, mailbox, pollCall,
          videos, files, transfers, dlCall, env, run, uploads, archive, lastOp>>

slotVars  == <<ScheduleSlots, slotCall, slotChain>>
pollVars  == <<mailbox, pollCall>>
fetchVars == <<videos, files, transfers, dlCall>>
runVars   == <<env, run, uploads, archive>>

Min(S) == CHOOSE x \in S : \A y \in S : x <= y
Max(S) == CHOOSE x \in S : \A y \in S : x >= y

(***************************************************************************)
(* Time                                                                    *)
(***************************************************************************)
MinutesPerHour == 60
MinutesPerDay  == 24 * MinutesPerHour
\* time.LoadLocation("Asia/Taipei"): UTC+8, no daylight saving
TaipeiOffset   == 8 * MinutesPerHour
\* the zero time.Time (year 1): IsZero, and before every instant of the model
ZeroTime       == -1

\* bounds of the model
MaxDays  == 2       \* input instants lie in days 0 .. MaxDays-1 (UTC)
MaxChain == 3       \* how often nextSlot is applied to its own output

Instants == 0 .. (MaxDays * MinutesPerDay - 1)

IsZero(t) == t = ZeroTime

\* t.After(u), with a mutant that accepts the equal instant
AfterOrEqual(t, u) == t >= u
After(t, u) == t > u

\* the calendar day (Year, Month, Day) of an instant read in a zone
\* (mutant: the zone is not applied)
DayOfUTC(t, offset) == t \div MinutesPerDay
DayOf(t, offset) == (t + offset) \div MinutesPerDay
\* time.Date(y, mo, d, h, m, 0, 0, loc) for loc = Asia/Taipei; out-of-range
\* hours and minutes are normalised by carrying into the day, as time.Date does
DateInTaipei(day, h, m) == day * MinutesPerDay + h * MinutesPerHour + m - TaipeiOffset

(***************************************************************************)
(* Slot entries.  strings.Split(slot, ":") gives the parts; a part is the   *)
(* text strconv.Atoi reads: a numeral (num, val) or something else.        *)
(***************************************************************************)
Num(n) == [num |-> TRUE, val |-> n]
NaN    == [num |-> FALSE, val |-> 0]
HM(h, m) == <<Num(h), Num(m)>>

\* h, _ := strconv.Atoi(part): the error is dropped and h is 0 then
Atoi(p) == IF p.num THEN p.val ELSE 0

DefaultSlots == <<HM(0, 0), HM(8, 0), HM(12, 0), HM(16, 0)>>

\* the configurations the model runs under: the built-in default and lists
\* env.json may hold (loadGlobalConfig does not validate)
SlotLists ==
    { DefaultSlots,
      <<HM(9, 30)>>,
      <<HM(0, 0)>>,
      <<HM(6, 15), HM(23, 59)>>,
      <<HM(16, 0), HM(8, 0)>>,          \* not ascending
      <<HM(25, 0)>>,                    \* hour out of range
      <<<<NaN, NaN>>>>,                 \* "ab:cd"
      <<<<Num(8)>>>>,                   \* "8": no colon
      <<HM(8, 0), <<Num(12)>>>>,        \* second entry has no colon
      << >> }                           \* empty list

WellFormedSlot(s) ==
    /\ Len(s) = 2
    /\ s[1].num /\ s[1].val \in 0..23
    /\ s[2].num /\ s[2].val \in 0..59

SlotMinute(s) == Atoi(s[1]) * MinutesPerHour + Atoi(s[2])

\* non-empty, every entry a valid 24-hour HH:MM, ascending
GoodSlots(slots) ==
    /\ Len(slots) > 0
    /\ \A i \in 1..Len(slots) : WellFormedSlot(slots[i])
    /\ \A i \in 1..Len(slots) : \A j \in 1..Len(slots) :
          i < j => SlotMinute(slots[i]) < SlotMinute(slots[j])

(***************************************************************************)
(* calculateNextSlot                                                        *)
(***************************************************************************)
Panic == [ok |-> FALSE, t |-> 0]
Ok(t) == [ok |-> TRUE, t |-> t]

\* parts[1] of an entry without ":" is an index out of range
SlotPanics(s) == Len(s) < 2

\* candidate := time.Date(baseDate..., h, m, 0, 0, loc)
Candidate(day, s) == DateInTaipei(day, Atoi(s[1]), Atoi(s[2]))

\* the loop stops at the first entry that panics or whose candidate is after lastTime
Stops(slots, day, lastTime) ==
    { i \in 1..Len(slots) :
        SlotPanics(slots[i]) \/ After(Candidate(day, slots[i]), lastTime) }

\* the entry the scan returns at: the first in list order (mutant: the last)
LastStop(S) == Max(S)
FirstStop(S) == Min(S)

\* nextDay := baseDate.AddDate(0, 0, 1) (mutant: the same day)
SameDay(day) == day
NextDay(day) == day + 1

\* lastTime: the argument; now, hostOffset: time.Now() and the offset of the
\* host's local zone, read only when lastTime is the zero instant.  In that
\* branch lastTime = time.Now() keeps the host's zone, so Year/Month/Day are
\* the host's calendar day, which time.Date then places in Asia/Taipei.
calculateNextSlot(lastTime, now, hostOffset, slots) ==
    LET lt  == IF IsZero(lastTime) THEN now ELSE lastTime
        day == IF IsZero(lastTime) THEN DayOf(now, hostOffset)
                                   ELSE DayOf(lastTime, TaipeiOffset)
        S   == Stops(slots, day, lt)
    IN  IF S # {}
        THEN LET i == FirstStop(S)
             IN  IF SlotPanics(slots[i]) THEN Panic
                                         ELSE Ok(Candidate(day, slots[i]))
        ELSE IF Len(slots) = 0 THEN Panic
        ELSE Ok(Candidate(NextDay(day), slots[1]))

\* the clocks a call may read
Nows        == {0, 1000, 1439}
HostOffsets == {0, TaipeiOffset}

NoSlotCall == [done |-> FALSE, in |-> ZeroTime, now |-> 0, host |-> 0, out |-> Panic]

SlotInit ==
    /\ ScheduleSlots \in SlotLists
    /\ slotCall = NoSlotCall
    /\ slotChain = << >>

\* one call of calculateNextSlot on an arbitrary instant
CallNextSlot ==
    /\ ~slotCall.done
    /\ \E t \in Instants \cup {ZeroTime} : \E now \in Nows : \E off \in HostOffsets :
          /\ IsZero(t) \/ (now = 0 /\ off = 0)
          /\ slotCall' = [done |-> TRUE, in |-> t, now |-> now, host |-> off,
                          out |-> calculateNextSlot(t, now, off, ScheduleSlots)]
    /\ UNCHANGED <<ScheduleSlots, slotChain, pollVars, fetchVars, runVars, lastOp>>

\* currTime = calculateNextSlot(currTime): the allocator fed its own output
ChainNextSlot ==
    /\ slotCall.done /\ slotCall.out.ok
    /\ Len(slotChain) < MaxChain
    /\ LET cur == IF slotChain = << >> THEN slotCall.out.t
                                       ELSE slotChain[Len(slotChain)]
           r   == calculateNextSlot(cur, 0, 0, ScheduleSlots)
       IN  /\ r.ok
           /\ slotChain' = Append(slotChain, r.t)
    /\ UNCHANGED <<ScheduleSlots, slotCall, pollVars, fetchVars, runVars, lastOp>>

(***************************************************************************)
(* Text                                                                    *)
(***************************************************************************)
\* the upper-case letters of the model's alphabet, as strings.ToLower maps them
UpperToLower == [A |-> "a", B |-> "b", C |-> "c", S |-> "s"]
ToLower(c) == IF c \in DOMAIN UpperToLower THEN UpperToLower[c] ELSE c

Digits == {"0", "1", "2", "3", "4", "5", "6", "7", "8", "9"}
IsDigit(c) == c \in Digits
\* what the pattern [^a-z0-9]+ leaves in place
IsLowerAlnum(c) == c \in Digits \cup {"a", "b", "c", "s"}

\* the prefix length of normalizePrompt
PromptKeyLen == 30

\* mutant: no lower-casing
normalizePromptCaseSensitive(s) ==
    LET kept == SelectSeq(s, IsLowerAlnum)
    IN  IF Len(kept) > PromptKeyLen THEN SubSeq(kept, 1, PromptKeyLen) ELSE kept
normalizePrompt(s) ==
    LET lower == [i \in 1..Len(s) |-> ToLower(s[i])]
        kept  == SelectSeq(lower, IsLowerAlnum)
    IN  IF Len(kept) > PromptKeyLen THEN SubSeq(kept, 1, PromptKeyLen) ELSE kept

\* strings.Contains(s, sub)
Contains(s, sub) ==
    \E i \in 0..(Len(s) - Len(sub)) : SubSeq(s, i + 1, i + Len(sub)) = sub

\* the end of the longest run of digits of s that starts at position i
\* (i - 1 when s[i] is no digit)
DigitRun(s, i) ==
    Max({ j \in (i - 1)..Len(s) : \A k \in i..j : IsDigit(s[k]) })

IsAt(s, i, c) == i <= Len(s) /\ s[i] = c

\* the end of the match of S2_\d+_\d+_\d+ that starts at position i, 0 when
\* there is none; "_" is no digit, so each \d+ takes its whole run
IDMatchEnd(s, i) ==
    IF ~(IsAt(s, i, "S") /\ IsAt(s, i + 1, "2") /\ IsAt(s, i + 2, "_")) THEN 0
    ELSE LET e1 == DigitRun(s, i + 3)
         IN  IF e1 < i + 3 \/ ~IsAt(s, e1 + 1, "_") THEN 0
             ELSE LET e2 == DigitRun(s, e1 + 2)
                  IN  IF e2 < e1 + 2 \/ ~IsAt(s, e2 + 1, "_") THEN 0
                      ELSE LET e3 == DigitRun(s, e2 + 2)
                           IN  IF e3 < e2 + 2 THEN 0 ELSE e3

\* regexp.MustCompile(`(S2_\d+_\d+_\d+)`).FindString(s): the leftmost match, "" when none
FindID(s) ==
    LET starts == { i \in 1..Len(s) : IDMatchEnd(s, i) > 0 }
    IN  IF starts = {} THEN << >>
        ELSE SubSeq(s, Min(starts), IDMatchEnd(s, Min(starts)))

(***************************************************************************)
(* The mailbox feed (MailboxResponse) and the task matcher                 *)
(***************************************************************************)
Complete == "sora_gen_complete"

\* a MailboxItem: id, kind, display_str, object.draft.{id, task_id, downloadable_url}
Item(id, kind, text, draftID, taskID, url) ==
    [ID |-> id, Kind |-> kind, DisplayStr |-> text,
     DraftID |-> draftID, TaskID |-> taskID, URL |-> url]

\* s repeated n times
RECURSIVE Rep(_, _)
Rep(s, n) == IF n = 0 THEN << >> ELSE s \o Rep(s, n - 1)

TextCat  == <<"S", "2", "_", "1", "_", "2", "_", "0", " ", "a", "b">>
TextBun  == <<"B", " ", "c", "!">>
TextLong == Rep(<<"a">>, PromptKeyLen) \o <<"b", "c">>
TextNone == <<"_", "!">>

\* the records a feed of the model is made of
ItemPool ==
    { Item("m1", Complete, TextCat, "d1", "T1", "u1"),
      Item("m2", Complete, TextBun, "d2", "T2", "u2"),
      Item("m3", Complete, TextLong, "", "T1", "u3"),
      Item("m4", Complete, TextNone, "", "T2", ""),
      Item("m5", "sora_gen_failed", TextBun, "", "T1", "u5"),
      Item("m6", Complete, TextNone, "", "", "u6") }

MaxFeed == 3        \* bound: records per feed

\* a feed of n records holds the n of the pool, in any order
RECURSIVE FeedsOfLen(_)
FeedsOfLen(n) ==
    IF n = 0 THEN {<< >>}
    ELSE { Append(f, r) : f \in FeedsOfLen(n - 1), r \in ItemPool }

Distinct(f) == \A i \in 1..Len(f) : \A j \in 1..Len(f) : i # j => f[i] # f[j]

Feeds == UNION { { f \in FeedsOfLen(n) : Distinct(f) } : n \in 0..MaxFeed }

TaskIDs == {"", "T1", "T2", "T9"}
Prompts == {<< >>, <<"b", "C">>, <<"A", "b">>, Rep(<<"A">>, PromptKeyLen) \o <<"b">>}

\* a response body: json.Unmarshal succeeds (ok) on the items, or fails
Body(items) == [ok |-> TRUE, items |-> items]
BadBody     == [ok |-> FALSE, items |-> << >>]

\* strings.Contains(jsonBody, targetTaskID) on the raw body: the identifiers of
\* the model are atoms, found in the body exactly when a record carries one
BodyContains(body, id) ==
    \/ id = ""
    \/ \E i \in 1..Len(body.items) :
          id \in {body.items[i].ID, body.items[i].DraftID, body.items[i].TaskID}

\* the URLs of the records at the positions P of the feed, in feed order
RECURSIVE URLsAt(_, _)
URLsAt(items, P) ==
    IF P = {} THEN << >>
    ELSE <<items[Min(P)].URL>> \o URLsAt(items, P \ {Min(P)})

SmartMatch(item, targetID, targetKey) ==
    \/ targetID # << >> /\ Contains(item.DisplayStr, targetID)
    \/ LET itemKey == normalizePrompt(item.DisplayStr)
       IN  Contains(itemKey, targetKey) \/ Contains(targetKey, itemKey)

extractLinksSmart(body, targetPrompt) ==
    IF ~body.ok THEN << >>
    ELSE LET targetID  == FindID(targetPrompt)
             targetKey == normalizePrompt(targetPrompt)
             P == { i \in 1..Len(body.items) :
                      /\ body.items[i].Kind = Complete
                      /\ SmartMatch(body.items[i], targetID, targetKey)
                      /\ body.items[i].URL # "" }
         IN  URLsAt(body.items, P)

\* mutant: only the first record is looked at
extractFirstValidLinkHead(body) ==
    IF body.ok /\ Len(body.items) > 0 /\ body.items[1].Kind = Complete
               /\ body.items[1].URL # ""
    THEN <<body.items[1].URL>> ELSE << >>
extractFirstValidLink(body) ==
    IF ~body.ok THEN << >>
    ELSE LET P == { i \in 1..Len(body.items) :
                      body.items[i].Kind = Complete /\ body.items[i].URL # "" }
         IN  IF P = {} THEN << >> ELSE <<body.items[Min(P)].URL>>

\* the first loop returns the smart match on the empty prompt as soon as a
\* completed record has a draft id and the body holds the task id anywhere;
\* only otherwise is draft.task_id compared
extractLinksByTaskID(body, targetTaskID) ==
    IF ~body.ok THEN << >>
    ELSE IF \E i \in 1..Len(body.items) :
               /\ body.items[i].Kind = Complete
               /\ body.items[i].DraftID # ""
               /\ BodyContains(body, targetTaskID)
         THEN extractLinksSmart(body, << >>)
         ELSE LET P == { i \in 1..Len(body.items) :
                           /\ body.items[i].Kind = Complete
                           /\ body.items[i].TaskID = targetTaskID
                           /\ body.items[i].URL # "" }
              IN  IF P = {} THEN << >> ELSE <<body.items[Min(P)].URL>>

\* the response of handleSoraPoll once both requests have been answered
PollLinks(mail, targetTaskID) ==
    LET links == extractLinksByTaskID(mail, targetTaskID)
    IN  IF Len(links) = 0 THEN extractFirstValidLink(mail) ELSE links

NoPollCall == [done |-> FALSE, task_id |-> "", prompt |-> << >>, mail |-> BadBody,
               status |-> "none", links |-> << >>]

PollInit ==
    /\ mailbox \in Feeds
    /\ pollCall = NoPollCall

PollResponse(taskID, prompt, mail, status, links) ==
    [done |-> TRUE, task_id |-> taskID, prompt |-> prompt, mail |-> mail,
     status |-> status, links |-> links]

\* how the two requests of a poll end: not logged in or the pending request
\* fails ("error"), the task id is in the pending body ("running"), the
\* mailbox request fails ("mailerror"), its body does not parse ("badjson"),
\* or it is the mailbox ("done")
PollOutcomes == {"error", "running", "mailerror", "badjson", "done"}

\* GET /api/sora/poll?task_id=..&prompt=..; the prompt parameter is not read
handleSoraPoll ==
    /\ \E taskID \in TaskIDs : \E prompt \in Prompts : \E outcome \in PollOutcomes :
          /\ outcome = "running" => taskID # ""
          /\ pollCall' =
               IF outcome \in {"error", "mailerror"}
               THEN PollResponse(taskID, prompt, BadBody, "error", << >>)
               ELSE IF outcome = "running"
               THEN PollResponse(taskID, prompt, BadBody, "running", << >>)
               ELSE LET mail == IF outcome = "badjson" THEN BadBody ELSE Body(mailbox)
                    IN  PollResponse(taskID, prompt, mail, "done", PollLinks(mail, taskID))
    /\ UNCHANGED <<slotVars, mailbox, fetchVars, runVars, lastOp>>

(***************************************************************************)
(* The store (videos.json) and the download directory                      *)
(***************************************************************************)
\* a VideoConfig; Title stands for the publication metadata the engine only
\* carries (title, description, tags, category_id, privacy)
Video(id, file, title, uploaded, publishAt, manual, ignore, url) ==
    [UniqueID |-> id, FileName |-> file, Title |-> title, Uploaded |-> uploaded,
     PublishAt |-> publishAt, IsManual |-> manual, IgnoreCalc |-> ignore,
     DownloadURL |-> url]

\* PublishAt == "": no publish time
NoPublishAt == -1
\* os.Stat fails: no file of that name
NoFile == -1
\* info.Size() > 1024 keeps an existing file
MinKeepSize == 1024

ID1 == <<"S", "2", "_", "1", "_", "2", "_", "0">>
ID2 == <<"S", "2", "_", "9", "_", "9", "_", "9">>
NoID == << >>

\* the path element the pattern files/([a-zA-Z0-9-_]+)/ finds in each URL of
\* the model, "" where the URL has none
URLFileID == [u1 |-> "f1", u2 |-> "f2", u3 |-> "", u5 |-> "", u6 |-> ""]
\* "sora_" + id + ".mp4"
SoraFileName == [f1 |-> "sora_f1.mp4", f2 |-> "sora_f2.mp4"]
\* "sora_" + time.Now().Format("20060102_150405") + ".mp4" and
\* "pending_" + time.Now().Format("150405") + ".mp4", for requests of one second
SoraNowName    == "sora_now.mp4"
PendingNowName == "pending_now.mp4"

\* foundID + ".mp4", the name handleSoraHistoryBatch gives the file of an id
IDFileName(id) == IF id = ID1 THEN "S2_1_2_0.mp4" ELSE "S2_9_9_9.mp4"

FileNames == {"a.mp4", "b.mp4", "c.mp4", "d.mp4", "e.mp4",
              "sora_f1.mp4", "sora_f2.mp4", "S2_1_2_0.mp4", "S2_9_9_9.mp4",
              SoraNowName, PendingNowName}

\* os.Remove(name): the file is gone afterwards.  The code drops the error
\* of the call, and in downloadFileWithProgress makes it while the file is
\* still open (out.Close() is deferred); the removal is taken to succeed.
\* (mutant: nothing is removed)
RemoveNothing(fs, name) == fs
Remove(fs, name) == [fs EXCEPT ![name] = NoFile]

(***************************************************************************)
(* downloadFileWithProgress                                                *)
(***************************************************************************)
\* what the server and the transfer do: client.Do fails (doErr), or answers
\* with a status, a Content-Type and a Content-Length (-1: none declared);
\* os.Create may fail (createErr); io.Copy writes `received` bytes and may
\* end in an error (copyErr)
Response(doErr, status, ctype, declared, createErr, received, copyErr) ==
    [doErr |-> doErr, status |-> status, ctype |-> ctype, declared |-> declared,
     createErr |-> createErr, received |-> received, copyErr |-> copyErr]

Sizes == {0, MinKeepSize, MinKeepSize + 1}
Big   == MinKeepSize + 1

\* the answers of the model.  A body of N declared bytes never yields more
\* than N bytes, and a declared length of 0 has no body (net/http).
Responses ==
    { Response(TRUE, 0, "", -1, FALSE, 0, FALSE),
      Response(FALSE, 403, "application/xml", -1, FALSE, 0, FALSE),
      Response(FALSE, 200, "text/html", -1, FALSE, 0, FALSE),
      Response(FALSE, 200, "application/xml", Big, FALSE, 0, FALSE),
      Response(FALSE, 200, "video/mp4", Big, TRUE, 0, FALSE),
      Response(FALSE, 200, "video/mp4", Big, FALSE, Big, FALSE),
      Response(FALSE, 200, "video/mp4", Big, FALSE, MinKeepSize, TRUE),
      Response(FALSE, 200, "video/mp4", Big, FALSE, MinKeepSize, FALSE),
      Response(FALSE, 200, "video/mp4", Big, FALSE, 0, FALSE),
      Response(FALSE, 200, "video/mp4", -1, FALSE, Big, FALSE),
      Response(FALSE, 200, "video/mp4", -1, FALSE, MinKeepSize, FALSE),
      Response(FALSE, 200, "video/mp4", -1, FALSE, 0, TRUE),
      Response(FALSE, 200, "video/mp4", 0, FALSE, 0, FALSE),
      Response(FALSE, 200, "video/mp4", MinKeepSize, FALSE, MinKeepSize, FALSE) }

\* strings.Contains(ct, "xml") || strings.Contains(ct, "text") on the content
\* types of the model
IsTextual(ct) == ct \in {"text/html", "application/xml"}

\* expectedSize > 0 && copiedBytes != expectedSize (mutant: never checked)
SizeUnchecked(expectedSize, copiedBytes) == FALSE
SizeMismatch(expectedSize, copiedBytes) ==
    expectedSize > 0 /\ copiedBytes # expectedSize

\* the result: err == nil (ok) and the directory afterwards
downloadFileWithProgress(fs, filename, resp) ==
    IF resp.doErr THEN [ok |-> FALSE, files |-> fs]
    ELSE IF resp.status # 200 THEN [ok |-> FALSE, files |-> fs]
    ELSE IF IsTextual(resp.ctype) THEN [ok |-> FALSE, files |-> fs]
    ELSE IF resp.createErr THEN [ok |-> FALSE, files |-> fs]
    ELSE LET written == [fs EXCEPT ![filename] = resp.received]   \* os.Create, io.Copy
         IN  IF resp.copyErr
             THEN [ok |-> FALSE, files |-> Remove(written, filename)]
             ELSE IF SizeMismatch(resp.declared, resp.received)
             THEN [ok |-> FALSE, files |-> Remove(written, filename)]
             ELSE [ok |-> TRUE, files |-> written]

(***************************************************************************)
(* handleSoraDownloadAndRename                                             *)
(***************************************************************************)
NoMeta  == [has |-> FALSE, v |-> Video(NoID, "", "", FALSE, NoPublishAt, FALSE, FALSE, "")]
Meta(v) == [has |-> TRUE, v |-> v]

Request(url, filename, meta, lookup) ==
    [URL |-> url, Filename |-> filename, Meta |-> meta, UniqueIDLookup |-> lookup]

MetaA == Video(ID1, "a.mp4", "A", FALSE, NoPublishAt, FALSE, FALSE, "")
MetaB == Video(NoID, "b.mp4", "B", TRUE, 600, TRUE, TRUE, "u2")
MetaC == Video(ID1, "", "C", FALSE, NoPublishAt, FALSE, FALSE, "")

\* the requests the front end sends: the pipeline with and without a link,
\* the back-fill by id, the history batch, a manual entry, and bare requests
Requests ==
    { Request("u1", "a.mp4", Meta(MetaA), NoID),
      Request("", "a.mp4", Meta(MetaA), NoID),
      Request("", "a.mp4", NoMeta, ID1),
      Request("", "a.mp4", NoMeta, NoID),
      Request("u1", "", NoMeta, NoID),
      Request("u3", "", NoMeta, NoID),
      Request("", "", NoMeta, NoID),
      Request("", "b.mp4", Meta(MetaB), NoID),
      Request("u2", "b.mp4", Meta(MetaC), NoID) }

\* the upsert's match: the same non-empty id, or the same file name
UpsertMatches(v, newVideo) ==
    \/ v.UniqueID # NoID /\ newVideo.UniqueID # NoID /\ v.UniqueID = newVideo.UniqueID
    \/ v.FileName = newVideo.FileName

\* newVideo.DownloadURL after the test against the matched item's (mutant:
\* the stored link is not kept)
IncomingURL(stored, incoming) == incoming
PreservedURL(stored, incoming) ==
    IF incoming = "" /\ stored # "" THEN stored ELSE incoming

\* 1. Metadata First: the store, targetFilename and targetURL afterwards
MetadataFirst(vs, req) ==
    IF ~req.Meta.has
    THEN [videos |-> vs, filename |-> req.Filename, url |-> req.URL]
    ELSE LET m  == req.Meta.v
             fn == IF m.FileName # "" THEN m.FileName ELSE req.Filename
             nv == [m EXCEPT !.FileName = fn,
                             !.DownloadURL = IF req.URL # "" THEN req.URL ELSE @,
                             !.Uploaded = FALSE,
                             !.IsManual = FALSE]
             M  == { i \in 1..Len(vs) : UpsertMatches(vs[i], nv) }
         IN  IF M # {}
             THEN LET i   == Min(M)
                      kept == PreservedURL(vs[i].DownloadURL, nv.DownloadURL)
                      nv2 == [nv EXCEPT !.DownloadURL =
                                 IF req.URL # "" THEN req.URL ELSE kept]
                  IN  [videos |-> [vs EXCEPT ![i] = nv2], filename |-> fn,
                       url |-> IF req.URL = "" /\ nv2.DownloadURL # ""
                               THEN nv2.DownloadURL ELSE req.URL]
             ELSE [videos |-> Append(vs, nv), filename |-> fn,
                   url |-> IF req.URL = "" /\ nv.DownloadURL # ""
                           THEN nv.DownloadURL ELSE req.URL]

\* the mailbox as fetchSoraURLFromHistory gets it: logged in, request and
\* json.Unmarshal succeeded (ok), and the items
fetchSoraURLFromHistory(hist, targetUniqueID) ==
    IF ~hist.ok THEN [ok |-> FALSE, url |-> ""]
    ELSE LET P == { i \in 1..Len(hist.items) :
                      /\ hist.items[i].Kind = Complete
                      /\ Contains(hist.items[i].DisplayStr, targetUniqueID)
                      /\ hist.items[i].URL # "" }
         IN  IF P = {} THEN [ok |-> FALSE, url |-> ""]
             ELSE [ok |-> TRUE, url |-> hist.items[Min(P)].URL]

\* 2. the back-fill: the store and targetURL afterwards
BackFill(vs, filename, url, req, hist) ==
    IF ~(url = "" /\ (req.UniqueIDLookup # NoID \/ filename # ""))
    THEN [videos |-> vs, url |-> url]
    ELSE LET F  == { i \in 1..Len(vs) : vs[i].FileName = filename }
             byFile   == req.UniqueIDLookup = NoID /\ F # {}
             lookupID == IF req.UniqueIDLookup # NoID THEN req.UniqueIDLookup
                         ELSE IF F # {} THEN vs[Min(F)].UniqueID ELSE NoID
             url1     == IF byFile THEN vs[Min(F)].DownloadURL ELSE ""
         IN  IF url1 = "" /\ lookupID # NoID
             THEN LET r == fetchSoraURLFromHistory(hist, lookupID)
                      U == { i \in 1..Len(vs) : vs[i].UniqueID = lookupID }
                  IN  IF ~r.ok THEN [videos |-> vs, url |-> ""]
                      ELSE [videos |-> IF U = {} THEN vs
                                       ELSE [vs EXCEPT ![Min(U)].DownloadURL = r.url],
                            url |-> r.url]
             ELSE [videos |-> vs, url |-> url1]

\* 3. the name of a request without one
DefaultFilename(filename, url) ==
    IF filename # "" THEN filename
    ELSE IF url = "" THEN PendingNowName
    ELSE IF URLFileID[url] # "" THEN SoraFileName[URLFileID[url]]
    ELSE SoraNowName

\* info.Size() > 1024: the file is there already (mutant: the comparison turned)
ExistingTooSmall(size) == size < MinKeepSize
ExistingComplete(size) == size > MinKeepSize

Histories ==
    { BadBody,
      Body(<<Item("m2", Complete, TextBun, "d2", "T2", "u2")>>),
      Body(<<Item("m2", Complete, TextBun, "d2", "T2", "u2"),
             Item("m1", Complete, TextCat, "d1", "T1", "u1")>>) }

\* 4. the download: the directory afterwards, the message and whether a
\* transfer (a call of downloadFileWithProgress) was made
FetchStep(fs, filename, url, resp) ==
    IF url = ""
    THEN [files |-> fs, message |-> "nolink", transfer |-> FALSE]
    ELSE IF fs[filename] # NoFile /\ ExistingComplete(fs[filename])
    THEN [files |-> fs, message |-> "skipped", transfer |-> FALSE]
    ELSE LET cleared == IF fs[filename] # NoFile THEN Remove(fs, filename) ELSE fs
             d == downloadFileWithProgress(cleared, filename, resp)
         IN  [files |-> d.files, message |-> IF d.ok THEN "ok" ELSE "failed",
              transfer |-> TRUE]

NoDlCall == [done |-> FALSE, calls |-> 0, filename |-> "", url |-> "", message |-> "none",
             before |-> NoFile, sent |-> 0, declared |-> -1, received |-> 0,
             copyErr |-> FALSE, again |-> FALSE]

InitialStores ==
    { << >>,
      <<Video(ID1, "a.mp4", "A", FALSE, NoPublishAt, FALSE, FALSE, "")>>,
      <<Video(ID2, "b.mp4", "B", FALSE, NoPublishAt, FALSE, FALSE, "u2"),
        Video(ID1, "a.mp4", "A", FALSE, NoPublishAt, FALSE, FALSE, "u1")>> }

NoFiles == [n \in FileNames |-> NoFile]

FetchInit ==
    /\ videos \in InitialStores
    /\ \E size \in Sizes \cup {NoFile} : files = [NoFiles EXCEPT !["a.mp4"] = size]
    /\ transfers = 0
    /\ dlCall = NoDlCall

MaxDownloads == 2   \* bound: download requests served

\* whether the back-fill of a request reads the mailbox
ReadsHistory(m, req) ==
    /\ m.url = ""
    /\ req.UniqueIDLookup # NoID \/ m.filename # ""

\* the handler on one request body
DownloadAndRename(req) ==
       LET m == MetadataFirst(videos, req)
       IN  \E hist \in IF ReadsHistory(m, req) THEN Histories ELSE {BadBody} :
           LET b  == BackFill(m.videos, m.filename, m.url, req, hist)
               fn == DefaultFilename(m.filename, b.url)
               skip == FetchStep(files, fn, b.url, CHOOSE r \in Responses : TRUE)
           IN  \E resp \in IF skip.transfer THEN Responses
                           ELSE {CHOOSE r \in Responses : TRUE} :
               LET f == FetchStep(files, fn, b.url, resp)
               IN  /\ videos' = b.videos
                   /\ files' = f.files
                   /\ transfers' = transfers + (IF f.transfer THEN 1 ELSE 0)
                   /\ dlCall' =
                        [done |-> TRUE, calls |-> dlCall.calls + 1,
                         filename |-> fn, url |-> b.url,
                         message |-> f.message, before |-> files[fn],
                         sent |-> IF f.transfer THEN 1 ELSE 0,
                         declared |-> IF f.transfer THEN resp.declared ELSE -1,
                         received |-> IF f.transfer THEN resp.received ELSE 0,
                         copyErr |-> f.transfer /\ resp.copyErr,
                         again |-> dlCall.done /\ dlCall.filename = fn
                                   /\ dlCall.message = "skipped"]

\* POST /api/sora/download
handleSoraDownloadAndRename ==
    /\ dlCall.calls < MaxDownloads
    /\ \E req \in Requests : DownloadAndRename(req)
    /\ UNCHANGED <<slotVars, pollVars, runVars, lastOp>>

NoRequest == Request("", "", NoMeta, NoID)

\* the request last served: which handler, its input, and the store it loaded
Op(op, n, req, file, at, flag, before) ==
    [op |-> op, n |-> n, req |-> req, file |-> file, at |-> at, flag |-> flag,
     before |-> before]
NoOp == Op("none", 0, NoRequest, "", NoPublishAt, FALSE, << >>)

(***************************************************************************)
(* The batch run: handleYoutubeRun and processScheduleAndUpload            *)
(***************************************************************************)
\* startDate.IsZero(): no ?date=, or one that time.Parse rejects
NoDate == -1

MaxLimit == 2   \* bound: the ?limit= of a run
MaxRuns  == 2   \* bound: batch runs started
MaxOps   == 2   \* bound: requests served that rewrite the store, runs included

\* the requests served so far: by the store handlers and as batch runs
RequestsServed == lastOp.n + run.runs

\* what loadConfig returns when videos.json was cut short: json.Unmarshal
\* fails on the incomplete text, the error is dropped and v stays nil
TornStore == << >>

\* os.IsNotExist(err) of os.Stat(name) (mutant: never)
FileNeverMissing(fs, name) == FALSE
FileMissing(fs, name) == fs[name] = NoFile

\* v.PublishAt != "" && !v.IgnoreCalc (mutant: IgnoreCalc is not read)
CountsAlways(v) == v.PublishAt # NoPublishAt
CountsInBaseline(v) == v.PublishAt # NoPublishAt /\ ~v.IgnoreCalc

\* localMaxTime after the loop has seen the first n items
RECURSIVE LocalMaxTime(_, _)
LocalMaxTime(vs, n) ==
    IF n = 0 THEN ZeroTime
    ELSE LET m == LocalMaxTime(vs, n - 1)
         IN  IF CountsInBaseline(vs[n]) /\ After(vs[n].PublishAt, m)
             THEN vs[n].PublishAt ELSE m

\* the answer of Videos.List: call.Do() fails (ok = FALSE) or gives items, each
\* with Status.PrivacyStatus = "private" or not and a Status.PublishAt
HostingItem(private, publishAt) == [private |-> private, publishAt |-> publishAt]
HostingAnswer(ok, items) == [ok |-> ok, items |-> items]

\* `last` after the loop has seen the first n items of the answer
RECURSIVE LastOfItems(_, _)
LastOfItems(items, n) ==
    IF n = 0 THEN ZeroTime
    ELSE LET m == LastOfItems(items, n - 1)
         IN  IF /\ items[n].private
                /\ items[n].publishAt # NoPublishAt
                /\ After(items[n].publishAt, m)
             THEN items[n].publishAt ELSE m

getLastScheduledTime(answer) ==
    IF answer.ok THEN LastOfItems(answer.items, Len(answer.items)) ELSE ZeroTime

\* what Videos.List may show of the uploads the service accepted: uploadVideo
\* sends each as private with the item's PublishAt
RECURSIVE Reported(_, _)
Reported(ups, n) ==
    IF n = 0 THEN << >>
    ELSE Append(Reported(ups, n - 1), HostingItem(TRUE, ups[n].publishAt))

\* the answers a run may get: the account's items, with or without the
\* uploads made so far among them
AnswersNow(answer, ups) ==
    IF answer.ok /\ ups # << >>
    THEN {answer, HostingAnswer(TRUE, answer.items \o Reported(ups, Len(ups)))}
    ELSE {answer}

\* lastTime before the start clock is computed
Baseline(vs, answer) ==
    LET lastTime     == getLastScheduledTime(answer)
        localMaxTime == LocalMaxTime(vs, Len(vs))
    IN  IF After(localMaxTime, lastTime) THEN localMaxTime ELSE lastTime

\* currTime before the loop; startDate is the day the request names
StartClock(startDate, lastTime, now, hostOffset, slots) ==
    IF startDate = NoDate
    THEN calculateNextSlot(lastTime, now, hostOffset, slots)
    ELSE LET midnight == DateInTaipei(startDate, 0, 0)
         IN  IF After(lastTime, midnight)
             THEN calculateNextSlot(lastTime, now, hostOffset, slots)
             ELSE Ok(midnight)

\* whether the start clock reads time.Now()
ReadsClock(startDate, lastTime) == startDate = NoDate /\ IsZero(lastTime)

\* uploadVideo: Videos.Insert succeeds unless the hosting service rejects it
uploadVideo(v, rejects) == v.FileName \notin rejects

\* v.IsManual && v.PublishAt != "": the item keeps the time it has (mutant:
\* the publish time is not looked at)
IsManualItem(v) == v.IsManual
HasManualTime(v) == v.IsManual /\ v.PublishAt # NoPublishAt

\* one pass of the loop body on videos[i], up to the answer of uploadVideo:
\* what happened to the item, the slice and currTime afterwards
LoopBody(mem, i, currTime, fs, rejects, slots) ==
    LET v     == mem[i]
        kept  == HasManualTime(v)
        v1    == IF kept THEN v ELSE [v EXCEPT !.PublishAt = currTime]
        next  == IF kept
                 THEN IF ~v.IgnoreCalc /\ After(v.PublishAt, currTime)
                      THEN calculateNextSlot(v.PublishAt, 0, 0, slots).t
                      ELSE currTime
                 ELSE calculateNextSlot(currTime, 0, 0, slots).t
    IN  IF v.Uploaded
        THEN [outcome |-> "already", mem |-> mem, currTime |-> currTime,
              auto |-> FALSE]
        ELSE IF FileMissing(fs, v.FileName)
        THEN [outcome |-> "missing", mem |-> mem, currTime |-> currTime,
              auto |-> FALSE]
        ELSE IF ~uploadVideo(v1, rejects)
        THEN [outcome |-> "failed", mem |-> [mem EXCEPT ![i] = v1],
              currTime |-> next, auto |-> ~kept]
        ELSE [outcome |-> "uploaded",
              mem |-> [mem EXCEPT ![i] = [v1 EXCEPT !.Uploaded = TRUE]],
              currTime |-> next, auto |-> ~kept]

\* what the hosting service received
Upload(v, n) == [file |-> v.FileName, publishAt |-> v.PublishAt, run |-> n]

\* archiveVideo: os.Rename into ArchiveFolder, which main creates
ArchiveFiles(fs, name) == [fs EXCEPT ![name] = NoFile]

NoRun ==
    [pc |-> "idle", runs |-> 0, mem |-> << >>, i |-> 0, processed |-> 0,
     currTime |-> ZeroTime, loaded |-> << >>, present |-> {}, saved |-> << >>,
     now |-> 0, host |-> 0, first |-> ZeroTime, firstAuto |-> NoPublishAt,
     last |-> "none", answer |-> HostingAnswer(FALSE, << >>),
     failed |-> {}, missing |-> {}, sent |-> {}, crashAt |-> "none"]

Present(fs) == { n \in FileNames : fs[n] # NoFile }

\* GET /youtube/run up to the loop: the store is loaded, the baseline and the
\* start clock computed; without client_secret.json the run ends at once
StartRun ==
    /\ run.pc # "loop"
    /\ run.runs < MaxRuns
    /\ RequestsServed < MaxOps
    /\ \E secret \in BOOLEAN :
       \E answer \in IF secret THEN AnswersNow(env.hosted, uploads) ELSE {env.hosted} :
       LET lastTime == Baseline(videos, answer)
           reads    == secret /\ ReadsClock(env.startDate, lastTime)
       IN  \E now \in IF reads THEN Nows ELSE {0} :
           \E off \in IF reads THEN HostOffsets ELSE {0} :
              LET c == StartClock(env.startDate, lastTime, now, off, ScheduleSlots)
              IN  /\ c.ok
                  /\ run' = IF ~secret
                            THEN [NoRun EXCEPT !.pc = "nosecret", !.runs = run.runs + 1]
                            ELSE [NoRun EXCEPT !.pc = "loop", !.runs = run.runs + 1,
                                      !.mem = videos, !.i = 1, !.currTime = c.t,
                                      !.first = c.t, !.answer = answer,
                                      !.loaded = videos, !.present = Present(files),
                                      !.saved = videos, !.now = now, !.host = off]
    /\ UNCHANGED <<slotVars, pollVars, fetchVars, env, uploads, archive, lastOp>>

\* the loop goes on: processed < limit and an item is left
LoopGoesOn == run.processed < env.limit /\ run.i <= Len(run.mem)

\* the local variables after a pass of the loop body with result b
AfterPass(b) ==
    [run EXCEPT !.i = @ + 1, !.mem = b.mem, !.currTime = b.currTime,
                !.processed = IF b.outcome = "uploaded" THEN @ + 1 ELSE @,
                !.saved = IF b.outcome = "uploaded" THEN b.mem ELSE @,
                !.firstAuto = IF @ = NoPublishAt /\ b.auto
                              THEN b.mem[run.i].PublishAt ELSE @,
                !.last = b.outcome,
                !.failed = IF b.outcome = "failed" THEN @ \cup {run.i} ELSE @,
                !.missing = IF b.outcome = "missing" THEN @ \cup {run.i} ELSE @,
                !.sent = IF b.outcome = "uploaded" THEN @ \cup {run.i} ELSE @]

\* one pass of the loop: skip, or assign the slot and upload; after a
\* successful upload the item is marked, its file archived and the store saved
RunItem ==
    /\ run.pc = "loop"
    /\ LoopGoesOn
    /\ LET b  == LoopBody(run.mem, run.i, run.currTime, files, env.rejects,
                          ScheduleSlots)
           v  == b.mem[run.i]
           up == b.outcome = "uploaded"
       IN  /\ run' = AfterPass(b)
           /\ uploads' = IF up THEN Append(uploads, Upload(v, run.runs)) ELSE uploads
           /\ files' = IF up THEN ArchiveFiles(files, v.FileName) ELSE files
           /\ archive' = IF up THEN archive \cup {v.FileName} ELSE archive
           /\ videos' = IF up THEN b.mem ELSE videos          \* saveConfig
    /\ UNCHANGED <<slotVars, pollVars, transfers, dlCall, env, lastOp>>

\* the loop ends: the limit is reached or no item is left
FinishRun ==
    /\ run.pc = "loop"
    /\ ~LoopGoesOn
    /\ run' = [run EXCEPT !.pc = "done"]
    /\ UNCHANGED <<slotVars, pollVars, fetchVars, env, uploads, archive, lastOp>>

\* where the process may end inside a pass: before uploadVideo returns; after
\* it returned nil; after archiveVideo; inside os.WriteFile, which has
\* truncated videos.json and not yet written all of the new text
CrashPoints(outcome) ==
    IF outcome = "uploaded" THEN {"before", "uploaded", "archived", "saving"}
    ELSE {"before"}

\* the process ends abruptly during the run
Crash ==
    /\ run.pc = "loop"
    /\ LET b == IF LoopGoesOn
                THEN LoopBody(run.mem, run.i, run.currTime, files, env.rejects,
                              ScheduleSlots)
                ELSE [outcome |-> "none"]
           v == b.mem[run.i]
       IN  \E point \in CrashPoints(b.outcome) :
             /\ run' = [run EXCEPT !.pc = "crashed", !.crashAt = point]
             /\ uploads' = IF point # "before"
                           THEN Append(uploads, Upload(v, run.runs)) ELSE uploads
             /\ files' = IF point \in {"archived", "saving"}
                         THEN ArchiveFiles(files, v.FileName) ELSE files
             /\ archive' = IF point \in {"archived", "saving"}
                           THEN archive \cup {v.FileName} ELSE archive
             /\ videos' = IF point = "saving" THEN TornStore ELSE videos
    /\ UNCHANGED <<slotVars, pollVars, transfers, dlCall, env, lastOp>>

\* the runs of the model: limits, start days, answers of the hosting service,
\* and the files it rejects
Limits == 0..MaxLimit
StartDates == {NoDate, 1}
HostingAnswers ==
    { HostingAnswer(FALSE, << >>),
      HostingAnswer(TRUE, <<HostingItem(TRUE, 600)>>),
      HostingAnswer(TRUE, <<HostingItem(TRUE, 600), HostingItem(FALSE, 9000),
                            HostingItem(TRUE, 3000), HostingItem(TRUE, NoPublishAt),
                            HostingItem(TRUE, 1000)>>) }
RejectSets == {{}, {"a.mp4"}, {"b.mp4", "c.mp4"}}

\* serial: the requests reach the server one after the other (the server
\* itself takes no lock: net/http serves every request on its own goroutine)
Env(limit, startDate, hosted, rejects) ==
    [limit |-> limit, startDate |-> startDate, hosted |-> hosted, rejects |-> rejects,
     serial |-> TRUE]
NoEnv == Env(0, NoDate, HostingAnswer(FALSE, << >>), {})

\* a pending item as the pipeline stores it
Pending(file) == Video(NoID, file, "T", FALSE, NoPublishAt, FALSE, FALSE, "")

\* the stores a run finds: empty; a backlog of five; uploaded, manual,
\* ignored and synced items among automatic ones; an automatic item that
\* already carries a publish time; a manual item set on a day's first slot
RunStores ==
    { << >>,
      <<Pending("a.mp4"), Pending("b.mp4"), Pending("c.mp4"), Pending("d.mp4"),
        Pending("e.mp4")>>,
      <<Video(ID1, "a.mp4", "A", TRUE, 600, FALSE, FALSE, ""),
        Video(NoID, "b.mp4", "B", FALSE, 2000, TRUE, FALSE, ""),
        Pending("c.mp4"),
        Video(NoID, "d.mp4", "D", FALSE, 5000, TRUE, TRUE, ""),
        Video(ID2, "e.mp4", "E", FALSE, NoPublishAt, TRUE, FALSE, "u2")>>,
      <<Video(NoID, "a.mp4", "A", FALSE, 600, FALSE, FALSE, ""),
        Pending("b.mp4"), Pending("c.mp4")>>,
      <<Video(NoID, "a.mp4", "A", FALSE, DateInTaipei(1, 0, 0), TRUE, FALSE, ""),
        Pending("b.mp4"), Pending("c.mp4")>> }

\* the download directory: every backlog file there, or some missing
RunFiles ==
    { [n \in FileNames |-> IF n \in {"a.mp4", "b.mp4", "c.mp4", "d.mp4", "e.mp4"} \ gone
                           THEN Big ELSE NoFile] :
        gone \in {{}, {"a.mp4"}, {"b.mp4", "d.mp4"}} }

RunInit ==
    /\ videos \in RunStores
    /\ files \in RunFiles
    /\ transfers = 0
    /\ dlCall = NoDlCall
    /\ \E limit \in Limits, startDate \in StartDates, hosted \in HostingAnswers,
          rejects \in RejectSets : env = Env(limit, startDate, hosted, rejects)
    /\ run = NoRun
    /\ uploads = << >>
    /\ archive = {}
    /\ lastOp = NoOp

(***************************************************************************)
(* The other requests that rewrite the store                               *)
(***************************************************************************)
\* requests are served one at a time: none while a batch run is in its loop,
\* unless the clients send them concurrently
Serial == env.serial => run.pc # "loop"

\* POST /api/sora/download carrying meta_json: the upsert of the pipeline
MetaUp  == Video(ID1, "a.mp4", "A2", TRUE, 600, TRUE, TRUE, "")
MetaUrl == Video(ID1, "a.mp4", "A3", FALSE, NoPublishAt, FALSE, FALSE, "u2")
MetaId  == Video(ID2, "a.mp4", "A4", FALSE, NoPublishAt, FALSE, FALSE, "")
MetaNew == Video(NoID, "c.mp4", "C", FALSE, NoPublishAt, FALSE, FALSE, "")

StoreRequests ==
    { Request("", "a.mp4", Meta(MetaUp), NoID),
      Request("u1", "a.mp4", Meta(MetaUrl), NoID),
      Request("", "a.mp4", Meta(MetaUrl), NoID),
      Request("", "a.mp4", Meta(MetaId), NoID),
      Request("", "b.mp4", Meta(MetaC), NoID),
      Request("", "", Meta(MetaNew), NoID) }

UpsertRequest ==
    /\ Serial
    /\ RequestsServed < MaxOps
    /\ \E req \in StoreRequests :
          /\ DownloadAndRename(req)
          /\ lastOp' = Op("upsert", lastOp.n + 1, req, "", NoPublishAt, FALSE, videos)
    /\ UNCHANGED <<slotVars, pollVars, runVars>>

\* the entry with the id that existingIDs points to after the first loop:
\* the last one in store order
LastWithID(vs, id) == Max({ i \in 1..Len(vs) : vs[i].UniqueID = id })

\* a stored item made from a feed record
Synced(id, file, url) == Video(id, file, "SYNC", FALSE, NoPublishAt, TRUE, FALSE, url)

\* the loop over mailboxResponse.Items after its first n records.  vs:
\* localVideos; ids: the keys of existingIDs; names: localFileNames; new: the
\* appends so far.  existingIDs holds pointers into the loaded slice (for the
\* ids of vs0) or to the local newVideo (for the ids added by the loop): a
\* write through the first reaches localVideos as long as append has not
\* moved the slice, which it does once the spare capacity is used up; a
\* write through the second never does.
RECURSIVE SyncFeed(_, _, _, _)
SyncFeed(vs0, items, n, spare) ==
    IF n = 0
    THEN [vs |-> vs0,
          ids |-> { vs0[i].UniqueID : i \in 1..Len(vs0) } \ {NoID},
          names |-> { vs0[i].FileName : i \in 1..Len(vs0) },
          new |-> 0]
    ELSE LET st == SyncFeed(vs0, items, n - 1, spare)
             it == items[n]
         IN  IF ~(it.Kind = Complete /\ it.URL # "") THEN st
             ELSE IF URLFileID[it.URL] = "" THEN st
             ELSE LET targetFileName == SoraFileName[URLFileID[it.URL]]
                      foundID == FindID(it.DisplayStr)
                      loaded  == \E i \in 1..Len(vs0) : vs0[i].UniqueID = foundID
                  IN  IF foundID # NoID
                      THEN IF foundID \in st.ids
                           THEN IF loaded /\ st.new <= spare
                                THEN [st EXCEPT !.vs[LastWithID(vs0, foundID)].DownloadURL = it.URL]
                                ELSE st
                           ELSE [st EXCEPT
                                   !.vs = Append(@, Synced(foundID, IDFileName(foundID), it.URL)),
                                   !.ids = @ \cup {foundID},
                                   !.new = @ + 1]
                      ELSE IF targetFileName \notin st.names
                           THEN [st EXCEPT
                                   !.vs = Append(@, Synced(NoID, targetFileName, it.URL)),
                                   !.names = @ \cup {targetFileName},
                                   !.new = @ + 1]
                           ELSE st

\* what the mailbox request of a history sync is answered with: the feed of
\* the model when it has one, else any of the histories
SyncAnswers == IF mailbox = << >> THEN Histories ELSE {BadBody, Body(mailbox)}

\* GET /api/sora/history_batch; without credentials, an answer or a body that
\* parses, the handler returns before it loads the store
handleSoraHistoryBatch ==
    /\ Serial
    /\ RequestsServed < MaxOps
    /\ \E hist \in SyncAnswers :
       \E spare \in IF hist.ok THEN {0, Len(hist.items)} ELSE {0} :
          /\ videos' = IF hist.ok
                       THEN SyncFeed(videos, hist.items, Len(hist.items), spare).vs
                       ELSE videos
          /\ lastOp' = Op("sync", lastOp.n + 1, NoRequest, "", NoPublishAt, hist.ok, videos)
    /\ UNCHANGED <<slotVars, pollVars, files, transfers, dlCall, runVars>>

\* time.Parse("2006-01-02T15:04", s): the wall-clock time of the form read as
\* UTC; NoPublishAt stands for a text that does not parse
ParseManualTime(wall) == wall

\* videos[i].IgnoreCalc = (updateBaseline != "on"); on: the form's
\* update_baseline is "on" (mutant: the flag as it comes)
BaselineFlag(on) == on
IgnoreUnlessCounted(on) == ~on

ManualNames == {"a.mp4", "b.mp4", "S2_1_2_0.mp4", "none.mp4"}
ManualTimes == {700, 2500}

\* POST /youtube/manual_schedule
handleManualSchedule ==
    /\ Serial
    /\ RequestsServed < MaxOps
    /\ \E fname \in ManualNames : \E wall \in ManualTimes \cup {NoPublishAt} :
       \E updateBaseline \in BOOLEAN :
         LET F  == { i \in 1..Len(videos) : videos[i].FileName = fname }
             i  == Min(F)
             set == [videos EXCEPT ![i] =
                        [@ EXCEPT !.PublishAt = ParseManualTime(wall),
                                  !.IsManual = TRUE,
                                  !.Uploaded = FALSE,
                                  !.IgnoreCalc = IgnoreUnlessCounted(updateBaseline)]]
             up == /\ ~FileMissing(files, fname)
                   /\ uploadVideo(set[i], env.rejects)
         IN  /\ (wall = NoPublishAt \/ F = {}) => updateBaseline   \* the flag is not read
             /\ lastOp' = Op("manual", lastOp.n + 1, NoRequest, fname, wall,
                             updateBaseline, videos)
             /\ IF wall = NoPublishAt \/ F = {}
                THEN UNCHANGED <<videos, files, uploads, archive>>
                ELSE /\ videos' = IF up THEN [set EXCEPT ![i].Uploaded = TRUE] ELSE set
                     /\ uploads' = IF up THEN Append(uploads, Upload(set[i], 0)) ELSE uploads
                     /\ files' = IF up THEN ArchiveFiles(files, fname) ELSE files
                     /\ archive' = IF up THEN archive \cup {fname} ELSE archive
    /\ UNCHANGED <<slotVars, pollVars, transfers, dlCall, env, run>>

\* POST /api/video/delete
handleVideoDelete ==
    /\ Serial
    /\ RequestsServed < MaxOps
    /\ \E filename \in ManualNames \cup {""} :
         LET keep(v) == v.FileName # filename
             found   == \E i \in 1..Len(videos) : videos[i].FileName = filename
         IN  /\ videos' = IF filename # "" /\ found THEN SelectSeq(videos, keep)
                          ELSE videos
             /\ lastOp' = Op("delete", lastOp.n + 1, NoRequest, filename,
                             NoPublishAt, found, videos)
    /\ UNCHANGED <<slotVars, pollVars, files, transfers, dlCall, runVars>>

\* the stores and the runs of the store specification: file names pairwise
\* distinct, uploaded and pending items, an item that a history sync made
\* and whose file has been downloaded since
StoreStores ==
    { <<Video(ID1, "a.mp4", "A", FALSE, NoPublishAt, FALSE, FALSE, "u1")>>,
      <<Synced(ID2, IDFileName(ID2), "u2")>>,
      <<Video(ID2, "b.mp4", "B", FALSE, NoPublishAt, FALSE, FALSE, ""),
        Video(ID1, "a.mp4", "A", TRUE, 600, FALSE, FALSE, "u1")>>,
      <<Video(NoID, "S2_1_2_0.mp4", "S", FALSE, NoPublishAt, FALSE, FALSE, ""),
        Video(NoID, "a.mp4", "A", TRUE, 600, TRUE, TRUE, "")>> }

StoreEnvs ==
    { Env(1, NoDate, HostingAnswer(FALSE, << >>), {}),
      Env(MaxLimit, NoDate, HostingAnswer(TRUE, <<HostingItem(TRUE, 600)>>), {"b.mp4"}) }

StoreInit ==
    /\ videos \in StoreStores
    /\ files = [n \in FileNames |-> IF n \in {"a.mp4", "b.mp4", IDFileName(ID2)}
                                     THEN Big ELSE NoFile]
    /\ transfers = 0
    /\ dlCall = NoDlCall
    /\ env \in StoreEnvs
    /\ run = NoRun
    /\ uploads = << >>
    /\ archive = {}
    /\ lastOp = NoOp

\* a whole batch run from the loaded slice vs, after its loop has visited
\* the first n items: the slice, the last slice saved, the clock, the counter,
\* the download directory and what the hosting service received
RECURSIVE RunThrough(_, _, _, _, _, _, _)
RunThrough(vs, n, start, limit, fs, rejects, nr) ==
    IF n = 0
    THEN [mem |-> vs, saved |-> vs, currTime |-> start, processed |-> 0,
          fs |-> fs, ups |-> << >>]
    ELSE LET st == RunThrough(vs, n - 1, start, limit, fs, rejects, nr)
             b  == LoopBody(st.mem, n, st.currTime, st.fs, rejects, ScheduleSlots)
             up == b.outcome = "uploaded"
         IN  IF st.processed >= limit THEN st
             ELSE [mem |-> b.mem,
                   saved |-> IF up THEN b.mem ELSE st.saved,
                   currTime |-> b.currTime,
                   processed |-> IF up THEN st.processed + 1 ELSE st.processed,
                   fs |-> IF up THEN ArchiveFiles(st.fs, b.mem[n].FileName) ELSE st.fs,
                   ups |-> IF up THEN Append(st.ups, Upload(b.mem[n], nr)) ELSE st.ups]

\* GET /youtube/run from a second client while a batch run is in its loop:
\* handleYoutubeRun starts processScheduleAndUpload whatever else is running;
\* the second run is taken as a whole, between two passes of the first
ConcurrentRun ==
    /\ ~env.serial
    /\ run.pc = "loop"
    /\ RequestsServed < MaxOps
    /\ LET lastTime == Baseline(videos, env.hosted)
           reads    == ReadsClock(env.startDate, lastTime)
       IN  \E now \in IF reads THEN Nows ELSE {0} :
           \E off \in IF reads THEN HostOffsets ELSE {0} :
              LET c == StartClock(env.startDate, lastTime, now, off, ScheduleSlots)
                  r == RunThrough(videos, Len(videos), c.t, env.limit, files,
                                  env.rejects, run.runs + 1)
              IN  /\ c.ok
                  /\ videos' = r.saved
                  /\ files' = r.fs
                  /\ uploads' = uploads \o r.ups
                  /\ archive' = archive \cup { r.ups[k].file : k \in 1..Len(r.ups) }
                  /\ lastOp' = Op("run", lastOp.n + 1, NoRequest, "", c.t, TRUE, videos)
    /\ UNCHANGED <<slotVars, pollVars, transfers, dlCall, env, run>>

\* fmt.Sprintf("S2_%s_%s", now.Format("20060102"), now.Format("15_04_05")):
\* the id the prompt generator makes, with one digit for each field
fixedID(date, h, m, sec) == <<"S", "2", "_", date, "_", h, "_", m, "_", sec>>

\* the records of the feeds a history sync reads: display_str is the prompt,
\* which carries the id of its generation; two of the ids are of prompts
\* generated in one minute
SyncPool ==
    { Item("m1", Complete, TextCat, "d1", "T1", "u1"),
      Item("m2", Complete, ID2 \o <<" ", "c">>, "d2", "T2", "u2"),
      Item("m3", Complete, fixedID("1", "2", "0", "5") \o <<" ", "a">>, "d3", "T3", "u1"),
      Item("m4", Complete, fixedID("1", "2", "0", "7") \o <<" ", "b">>, "d4", "T4", "u2"),
      Item("m5", Complete, ID2 \o <<" ", "c">>, "d5", "T5", "u3") }

MaxSync == 2        \* bound: records per feed of a history sync

RECURSIVE SyncFeedsOfLen(_)
SyncFeedsOfLen(n) ==
    IF n = 0 THEN {<< >>}
    ELSE { Append(f, r) : f \in SyncFeedsOfLen(n - 1), r \in SyncPool }

SyncFeeds == UNION { { f \in SyncFeedsOfLen(n) : Distinct(f) } : n \in 1..MaxSync }

\* the stores a history sync finds: empty, items of the pipeline with their
\* ids, an item without a link
SyncStores ==
    { << >>,
      <<Video(ID1, "a.mp4", "A", FALSE, NoPublishAt, FALSE, FALSE, "")>>,
      <<Video(ID2, "b.mp4", "B", FALSE, NoPublishAt, FALSE, FALSE, "u3"),
        Video(ID1, "a.mp4", "A", TRUE, 600, FALSE, FALSE, "u2")>>,
      <<Video(fixedID("1", "2", "0", "5"), "a.mp4", "A", FALSE, NoPublishAt, FALSE, FALSE, ""),
        Video(fixedID("1", "2", "0", "7"), "b.mp4", "B", FALSE, NoPublishAt, FALSE, FALSE, "")>> }

SyncInit ==
    /\ mailbox \in SyncFeeds
    /\ pollCall = NoPollCall
    /\ videos \in SyncStores
    /\ files = NoFiles
    /\ transfers = 0
    /\ dlCall = NoDlCall
    /\ env = NoEnv
    /\ run = NoRun
    /\ uploads = << >>
    /\ archive = {}
    /\ lastOp = NoOp

\* the stores and the runs of concurrent clients
RaceInit ==
    /\ videos \in StoreStores \cup {<<Pending("a.mp4"), Pending("b.mp4")>>}
    /\ files = [n \in FileNames |-> IF n \in {"a.mp4", "b.mp4", IDFileName(ID2)}
                                     THEN Big ELSE NoFile]
    /\ transfers = 0
    /\ dlCall = NoDlCall
    /\ env \in { [e EXCEPT !.serial = FALSE] : e \in StoreEnvs }
    /\ run = NoRun
    /\ uploads = << >>
    /\ archive = {}
    /\ lastOp = NoOp

(***************************************************************************)
(* Specifications: one for each component, the others at rest              *)
(***************************************************************************)
SlotIdle ==
    ScheduleSlots = DefaultSlots /\ slotCall = NoSlotCall /\ slotChain = << >>
PollIdle ==
    mailbox = << >> /\ pollCall = NoPollCall
FetchIdle ==
    videos = << >> /\ files = NoFiles /\ transfers = 0 /\ dlCall = NoDlCall
RunIdle ==
    env = NoEnv /\ run = NoRun /\ uploads = << >> /\ archive = {} /\ lastOp = NoOp

\* the slot allocator
SlotSpecInit == SlotInit /\ PollIdle /\ FetchIdle /\ RunIdle
SlotNext == CallNextSlot \/ ChainNextSlot
SlotSpec == SlotSpecInit /\ [][SlotNext]_vars

\* the task matcher
MatchInit == SlotIdle /\ PollInit /\ FetchIdle /\ RunIdle
MatchNext == handleSoraPoll
MatchSpec == MatchInit /\ [][MatchNext]_vars

\* the artifact fetcher and the store
FetchSpecInit == SlotIdle /\ PollIdle /\ FetchInit /\ RunIdle
FetchNext == handleSoraDownloadAndRename
FetchSpec == FetchSpecInit /\ [][FetchNext]_vars

\* the requests that rewrite the store, served one at a time
StoreSpecInit == SlotIdle /\ PollIdle /\ StoreInit
StoreNext ==
    \/ UpsertRequest
    \/ handleSoraHistoryBatch
    \/ handleManualSchedule
    \/ handleVideoDelete
    \/ StartRun
    \/ RunItem
    \/ FinishRun
StoreSpec == StoreSpecInit /\ [][StoreNext]_vars

\* the history sync on the feed of the mailbox
SyncSpecInit == SlotIdle /\ SyncInit
SyncNext == handleSoraHistoryBatch
SyncSpec == SyncSpecInit /\ [][SyncNext]_vars

\* the same requests from concurrent clients: a request may be served
\* between two passes of a batch run
RaceSpecInit == SlotIdle /\ PollIdle /\ RaceInit
RaceNext ==
    \/ UpsertRequest
    \/ handleSoraHistoryBatch
    \/ handleManualSchedule
    \/ handleVideoDelete
    \/ ConcurrentRun
    \/ StartRun
    \/ RunItem
    \/ FinishRun
RaceSpec == RaceSpecInit /\ [][RaceNext]_vars

\* the batch run, which may end abruptly
RunSpecInit == SlotIdle /\ PollIdle /\ RunInit
RunNext == StartRun \/ RunItem \/ FinishRun \/ Crash
RunSpec == RunSpecInit /\ [][RunNext]_vars

(***************************************************************************)
(* Properties of the slot allocator (SlotSpec)                             *)
(***************************************************************************)
\* the wall-clock minute of the day of an instant, in Asia/Taipei
TaipeiMinute(t) == (t + TaipeiOffset) % MinutesPerDay
TaipeiDay(t)    == (t + TaipeiOffset) \div MinutesPerDay

\* the instant of a configured slot on a calendar day of Asia/Taipei
SlotInstant(day, s) == day * MinutesPerDay + SlotMinute(s) - TaipeiOffset
SlotsOfDay(slots, day) == { SlotInstant(day, slots[i]) : i \in 1..Len(slots) }
IsSlotInstant(slots, t) ==
    \E i \in 1..Len(slots) : TaipeiMinute(t) = SlotMinute(slots[i])

\* a call on a set (non-zero) instant under a well-formed ascending slot list
GoodCall ==
    slotCall.done /\ ~IsZero(slotCall.in) /\ GoodSlots(ScheduleSlots)

\* C1: for a non-zero input and a non-empty, ascending, well-formed slot list
\* calculateNextSlot returns an instant strictly greater than its input.
C1_OutputAfterInput ==
    GoodCall => slotCall.out.ok /\ slotCall.out.t > slotCall.in

\* the input lies exactly on a slot and the result is a later instant
C1_Witness ==
    /\ GoodCall
    /\ IsSlotInstant(ScheduleSlots, slotCall.in)
    /\ slotCall.out.ok /\ slotCall.out.t > slotCall.in

\* C2: a non-zero input strictly before the last configured slot of its
\* Taipei calendar day gives the earliest slot of that day strictly after it.
C2_NextSlotSameDay ==
    LET day  == TaipeiDay(slotCall.in)
        last == SlotInstant(day, ScheduleSlots[Len(ScheduleSlots)])
    IN  (GoodCall /\ slotCall.in < last) =>
          /\ slotCall.out.ok
          /\ slotCall.out.t =
                Min({ x \in SlotsOfDay(ScheduleSlots, day) : x > slotCall.in })
          /\ TaipeiDay(slotCall.out.t) = day

\* slots 00:00/08:00/12:00/16:00, 09:30 in Taipei gives 12:00 of the same day
C2_Witness ==
    /\ GoodCall /\ ScheduleSlots = DefaultSlots
    /\ TaipeiMinute(slotCall.in) = 9 * MinutesPerHour + 30
    /\ slotCall.out.ok
    /\ TaipeiMinute(slotCall.out.t) = 12 * MinutesPerHour
    /\ TaipeiDay(slotCall.out.t) = TaipeiDay(slotCall.in)

\* C3: a non-zero input at or after the last configured slot of its Taipei
\* calendar day gives the first configured slot of the following day.
C3_FirstSlotNextDay ==
    LET day  == TaipeiDay(slotCall.in)
        last == SlotInstant(day, ScheduleSlots[Len(ScheduleSlots)])
    IN  (GoodCall /\ slotCall.in >= last) =>
          /\ slotCall.out.ok
          /\ slotCall.out.t = SlotInstant(day + 1, ScheduleSlots[1])

\* 23:00 in Taipei gives 00:00 of the next day
C3_Witness ==
    /\ GoodCall /\ ScheduleSlots = DefaultSlots
    /\ TaipeiMinute(slotCall.in) = 23 * MinutesPerHour
    /\ slotCall.out.ok
    /\ TaipeiMinute(slotCall.out.t) = 0
    /\ TaipeiDay(slotCall.out.t) = TaipeiDay(slotCall.in) + 1

\* the start (when it is a set instant) and the outputs of the repeated calls
SlotSequence ==
    (IF IsZero(slotCall.in) THEN << >> ELSE <<slotCall.in>>)
        \o <<slotCall.out.t>> \o slotChain

\* a configured slot instant strictly between two instants
SlotBetween(slots, x, y) ==
    \E day \in (TaipeiDay(x) - 1)..(TaipeiDay(y) + 1) :
        \E s \in SlotsOfDay(slots, day) : x < s /\ s < y

\* C4: nextSlot applied again and again to its own output gives a strictly
\* increasing sequence of configured slot instants that skips no slot instant.
C4_ChainIncreasesOnSlots ==
    (slotCall.done /\ slotCall.out.ok /\ GoodSlots(ScheduleSlots)) =>
        /\ IsSlotInstant(ScheduleSlots, slotCall.out.t)
        /\ \A k \in 1..Len(slotChain) : IsSlotInstant(ScheduleSlots, slotChain[k])
        /\ \A k \in 1..(Len(SlotSequence) - 1) :
              /\ SlotSequence[k + 1] > SlotSequence[k]
              /\ ~SlotBetween(ScheduleSlots, SlotSequence[k], SlotSequence[k + 1])

\* a full chain that runs over the end of a day
C4_Witness ==
    /\ slotCall.done /\ slotCall.out.ok /\ GoodSlots(ScheduleSlots)
    /\ Len(ScheduleSlots) > 1
    /\ Len(slotChain) = MaxChain
    /\ TaipeiDay(slotChain[MaxChain]) > TaipeiDay(slotCall.out.t)

\* an entry that reads as hours and minutes: two parts, both numerals
Parsable(s) == Len(s) = 2 /\ s[1].num /\ s[2].num

\* C34: calculateNextSlot never computes its result from an entry that does
\* not parse and never faults: a result lies on an entry that parses, and
\* no call ends in a run-time panic (an empty list or a malformed entry is
\* reported as a configuration error instead).
C34_MalformedSlotsAreReported ==
    slotCall.done =>
       /\ slotCall.out # Panic
       /\ slotCall.out.ok =>
             \E i \in 1..Len(ScheduleSlots) :
             \E day \in (TaipeiDay(slotCall.out.t) - 1)..TaipeiDay(slotCall.out.t) :
                /\ Parsable(ScheduleSlots[i])
                /\ slotCall.out.t = SlotInstant(day, ScheduleSlots[i])

\* a call on the zero instant under a well-formed ascending slot list
ZeroCall ==
    slotCall.done /\ IsZero(slotCall.in) /\ GoodSlots(ScheduleSlots)

\* C35: on the zero instant calculateNextSlot returns the first configured
\* slot strictly after the current instant, whatever the host's zone.
C35_ZeroInputStartsFromNow ==
    ZeroCall =>
       /\ slotCall.out.ok
       /\ slotCall.out.t > slotCall.now
       /\ IsSlotInstant(ScheduleSlots, slotCall.out.t)
       /\ ~SlotBetween(ScheduleSlots, slotCall.now, slotCall.out.t)

(***************************************************************************)
(* Properties of the task matcher (MatchSpec)                              *)
(***************************************************************************)
PollDone == pollCall.done /\ pollCall.status = "done" /\ pollCall.mail.ok

\* the positions of the completed records with a URL
ValidRecords(items) ==
    { i \in 1..Len(items) : items[i].Kind = Complete /\ items[i].URL # "" }

\* the positions of the completed records with a URL whose task id is the target
ExactRecords(items, taskID) ==
    { i \in ValidRecords(items) : items[i].TaskID = taskID }

\* C5: when a completed record with a URL has the target task id in its
\* structured field, the chosen link (the first link of the response) is the
\* URL of such a record, whatever comes before it in the feed.
C5_ExactMatchWins ==
    LET items == pollCall.mail.items
        E     == ExactRecords(items, pollCall.task_id)
    IN  (PollDone /\ pollCall.task_id # "" /\ E # {}) =>
          /\ Len(pollCall.links) > 0
          /\ \E i \in E : pollCall.links[1] = items[i].URL

\* the positions of the completed records whose normalized display text
\* holds the normalized request text
FuzzyRecords(items, prompt) ==
    { i \in 1..Len(items) :
        /\ items[i].Kind = Complete
        /\ Contains(normalizePrompt(items[i].DisplayStr), normalizePrompt(prompt)) }

\* C6: with no record of the target's task id, and the normalized request
\* text contained in the normalized display text of exactly one completed
\* record, the chosen link is that record's URL.
C6_FuzzyMatchReturned ==
    LET items == pollCall.mail.items
        F     == FuzzyRecords(items, pollCall.prompt)
    IN  ( /\ PollDone
          /\ \A i \in 1..Len(items) : items[i].TaskID # pollCall.task_id
          /\ Cardinality(F) = 1
          /\ \A i \in F : items[i].URL # "" ) =>
          /\ Len(pollCall.links) > 0
          /\ \A i \in F : pollCall.links[1] = items[i].URL

\* C7: a poll that ends without a link had a feed without any completed
\* record that carries a URL.
C7_NotFoundOnlyWithoutValidRecord ==
    (PollDone /\ pollCall.links = << >>) => ValidRecords(pollCall.mail.items) = {}

\* the first record of the feed is not usable, the task id matches nothing,
\* and the fallback still returns the URL of a later record
C7_Witness ==
    /\ PollDone
    /\ Len(pollCall.mail.items) > 1
    /\ 1 \notin ValidRecords(pollCall.mail.items)
    /\ extractLinksByTaskID(pollCall.mail, pollCall.task_id) = << >>
    /\ pollCall.links # << >>

\* what the exact tier yields: the completed records with a URL that carry
\* the target's task id
ExactYield == ExactRecords(pollCall.mail.items, pollCall.task_id)

\* what the fuzzy tier yields for the request's text: the completed records
\* with a URL that match it by identifier or by normalized text
FuzzyYield ==
    LET target == pollCall.prompt
    IN  IF FindID(target) = << >> /\ normalizePrompt(target) = << >> THEN {}
        ELSE { i \in ValidRecords(pollCall.mail.items) :
                 SmartMatch(pollCall.mail.items[i], FindID(target),
                            normalizePrompt(target)) }

\* the handler took the fallback: extractLinksByTaskID gave no link
FallbackUsed == extractLinksByTaskID(pollCall.mail, pollCall.task_id) = << >>

\* C29: when neither the exact nor the fuzzy tier yields a record, the chosen
\* link is the URL of the first completed record with a URL, if there is
\* one; and the fallback is taken only when neither tier yields a record.
C29_FallbackOnlyAfterBothTiers ==
    PollDone =>
       LET items == pollCall.mail.items
           V     == ValidRecords(items)
       IN  /\ (ExactYield = {} /\ FuzzyYield = {}) =>
                 IF V = {} THEN pollCall.links = << >>
                 ELSE /\ pollCall.links # << >>
                      /\ pollCall.links[1] = items[Min(V)].URL
           /\ FallbackUsed => (ExactYield = {} /\ FuzzyYield = {})

\* the records the fuzzy tier is to return for a target text: completed,
\* with a URL, and matching a target that is not empty by its identifier or
\* by the normalized texts, one being part of the other
FuzzyMatches(items, target) ==
    IF target = << >> THEN {}
    ELSE { i \in ValidRecords(items) :
             SmartMatch(items[i], FindID(target), normalizePrompt(target)) }

\* the handler went through the fuzzy tier: a completed record has a draft
\* id and the body holds the task id
SmartTaken ==
    /\ PollDone
    /\ BodyContains(pollCall.mail, pollCall.task_id)
    /\ \E i \in 1..Len(pollCall.mail.items) :
          /\ pollCall.mail.items[i].Kind = Complete
          /\ pollCall.mail.items[i].DraftID # ""

\* C30: on the feed of a poll, extractLinksSmart returns for every target
\* text the URLs, in feed order, of the completed records with a URL that
\* match it, and none for the empty target; so do the links of a poll that
\* went through the fuzzy tier, which the handler calls on the empty target.
C30_FuzzyTierMatchesOnlyByText ==
    PollDone =>
       /\ \A target \in Prompts :
             extractLinksSmart(pollCall.mail, target)
                = URLsAt(pollCall.mail.items, FuzzyMatches(pollCall.mail.items, target))
       /\ SmartTaken =>
             pollCall.links
                = URLsAt(pollCall.mail.items, FuzzyMatches(pollCall.mail.items, << >>))

(***************************************************************************)
(* Properties of the artifact fetcher (FetchSpec)                          *)
(***************************************************************************)
\* a step that served a download request
Served == dlCall'.calls = dlCall.calls + 1

\* C8: a request whose destination already holds a file of more than 1024
\* bytes starts no transfer and leaves the directory as it is, at every call.
C8_SkipExisting ==
    [][(Served /\ files[dlCall'.filename] > MinKeepSize) =>
          (transfers' = transfers /\ files' = files)]_vars

\* two calls in a row on the same destination, both skipped
C8_Witness ==
    /\ dlCall.done /\ dlCall.again
    /\ dlCall.message = "skipped"
    /\ dlCall.before > MinKeepSize /\ dlCall.sent = 0
    /\ files[dlCall.filename] = dlCall.before

Eligible ==
    { i \in 1..Len(run.loaded) :
        /\ ~run.loaded[i].Uploaded
        /\ run.loaded[i].FileName \in run.present
        /\ run.loaded[i].FileName \notin env.rejects }

\* the items the persisted store shows uploaded and the loaded store did not
NewlyUploaded ==
    { i \in 1..Len(run.loaded) :
        ~run.loaded[i].Uploaded /\ i <= Len(videos) /\ videos[i].Uploaded }

\* the uploads the hosting service accepted from the current run
RunUploads == { k \in 1..Len(uploads) : uploads[k].run = run.runs }

\* C15: a finished run with limit L made at most L uploads; when at least L
\* items were eligible, exactly L items are newly uploaded in the persisted
\* store and every other item is persisted as it was loaded.
C15_LimitBoundsUploads ==
    run.pc = "done" =>
      /\ Cardinality(RunUploads) <= env.limit
      /\ Cardinality(Eligible) >= env.limit =>
            /\ Len(videos) = Len(run.loaded)
            /\ Cardinality(NewlyUploaded) = env.limit
            /\ \A i \in (1..Len(videos)) \ NewlyUploaded : videos[i] = run.loaded[i]

\* C16: when the run ends abruptly, every item uploaded before the most
\* recent successful upload is uploaded = true in the persisted store.
C16_EarlierUploadsPersisted ==
    run.pc = "crashed" =>
      \A k \in RunUploads :
         k < Len(uploads) =>
            \E i \in 1..Len(videos) :
               videos[i].FileName = uploads[k].file /\ videos[i].Uploaded

\* C17: an item whose upload failed stays pending and is not counted, the
\* loop goes on to its end, and the persisted store after the run holds the
\* item exactly as it was loaded.
C17_FailedUploadLeavesItem ==
    run.pc = "done" =>
      \A i \in run.failed :
         /\ ~run.mem[i].Uploaded
         /\ i \notin run.sent
         /\ run.processed = Cardinality(run.sent)
         /\ ~LoopGoesOn
         /\ videos[i] = run.loaded[i]

\* C18: a pass over a pending item whose file is missing changes no item,
\* uploads nothing, leaves the running clock, the counter and the persisted
\* store as they are, and the loop goes on with the next item.
C18_MissingFileSkipped ==
    [][(/\ run.pc = "loop" /\ run'.pc = "loop" /\ run'.i = run.i + 1
        /\ ~run.mem[run.i].Uploaded
        /\ files[run.mem[run.i].FileName] = NoFile) =>
          /\ run'.mem = run.mem
          /\ run'.currTime = run.currTime
          /\ run'.processed = run.processed
          /\ uploads' = uploads
          /\ videos' = videos
          /\ files' = files /\ archive' = archive]_vars

\* a finished run skipped a missing item and uploaded a later one, on the
\* first slot of the run; the skipped item is persisted as it was
C18_Witness ==
    /\ run.pc = "done"
    /\ \E i \in run.missing : \E j \in run.sent :
          /\ i < j
          /\ videos[i] = run.loaded[i] /\ ~videos[i].Uploaded
          /\ videos[j].Uploaded /\ videos[j].PublishAt = run.first

\* the latest publish time among the private items of the hosting service's
\* answer, and among the stored items that count in the baseline
HostingLatest(answer) ==
    LET T == { answer.items[k].publishAt : k \in { n \in 1..Len(answer.items) :
                  answer.items[n].private /\ answer.items[n].publishAt # NoPublishAt } }
    IN  IF answer.ok /\ T # {} THEN Max(T) ELSE ZeroTime
LocalLatest(vs) ==
    LET T == { vs[k].PublishAt : k \in { n \in 1..Len(vs) :
                  ~vs[n].IgnoreCalc /\ vs[n].PublishAt # NoPublishAt } }
    IN  IF T # {} THEN Max(T) ELSE ZeroTime

\* C19: without a start date the run's clock starts at nextSlot(B), B the
\* later of the hosting service's latest publish time and the largest
\* publishAt of the stored items with ignoreCalc = false; the first item the
\* run schedules gets that slot.
C19_FirstSlotAfterBaseline ==
    (run.pc \in {"loop", "done", "crashed"} /\ env.startDate = NoDate) =>
       LET B == Max({HostingLatest(run.answer), LocalLatest(run.loaded)})
       IN  /\ run.first = calculateNextSlot(B, run.now, run.host, ScheduleSlots).t
           /\ run.firstAuto # NoPublishAt => run.firstAuto = run.first

\* the stored baseline is later than the hosting service's, an ignored item
\* is later still, and an item was scheduled after a manual one
C19_Witness ==
    /\ run.pc = "done" /\ env.startDate = NoDate
    /\ run.firstAuto # NoPublishAt
    /\ LocalLatest(run.loaded) > HostingLatest(run.answer)
    /\ HostingLatest(run.answer) # ZeroTime
    /\ \E i \in 1..Len(run.loaded) :
          run.loaded[i].IgnoreCalc /\ run.loaded[i].PublishAt > LocalLatest(run.loaded)
    /\ \E i \in run.sent : run.loaded[i].IsManual /\ run.loaded[i].PublishAt # NoPublishAt

\* C20: when the process ends abruptly, the store the next loadConfig reads
\* is the last store saved: nothing but the change in flight is lost.
C20_CrashKeepsPersistedItems ==
    run.pc = "crashed" => videos = run.saved

\* the uploads the hosting service accepted from earlier runs
EarlierUploads == { k \in 1..Len(uploads) : uploads[k].run < run.runs }

\* C22: whatever way the earlier runs ended, the hosting service is never
\* sent a file it has accepted before, and once a later run has finished no
\* item of the store whose file it has accepted is still pending.
C22_RerunNeitherRepeatsNorStrands ==
    /\ \A j \in 1..Len(uploads) : \A k \in 1..Len(uploads) :
          j # k => uploads[j].file # uploads[k].file
    /\ (run.runs > 1 /\ run.pc = "done") =>
          \A k \in EarlierUploads : \A i \in 1..Len(videos) :
             videos[i].FileName = uploads[k].file => videos[i].Uploaded

\* the baseline of the current run: the later of the hosting service's
\* latest publish time and the stored ones that count
RunBaseline == Max({HostingLatest(run.answer), LocalLatest(run.loaded)})

\* the first configured slot of a calendar day of Asia/Taipei
FirstSlotOfDate(day) == Min(SlotsOfDay(ScheduleSlots, day))

\* C23: with a start date the run's clock starts on the first configured
\* slot of that date, or on nextSlot(B) when the baseline B is later than
\* that slot; either way it starts on a configured slot and strictly later
\* than B.
C23_StartDateClock ==
    (run.pc \in {"loop", "done", "crashed"} /\ env.startDate # NoDate) =>
       LET B == RunBaseline
           F == FirstSlotOfDate(env.startDate)
       IN  /\ run.first = IF B > F
                          THEN calculateNextSlot(B, run.now, run.host, ScheduleSlots).t
                          ELSE F
           /\ IsSlotInstant(ScheduleSlots, run.first)
           /\ run.first > B

\* the loop of a run as a function of what it starts from: the slice, the
\* clock and the counter after the loop has visited the first n items
RECURSIVE WholeLoop(_, _, _, _, _, _)
WholeLoop(vs, n, start, limit, fs, rejects) ==
    IF n = 0 THEN [mem |-> vs, currTime |-> start, processed |-> 0]
    ELSE LET st == WholeLoop(vs, n - 1, start, limit, fs, rejects)
             b  == LoopBody(st.mem, n, st.currTime, fs, rejects, ScheduleSlots)
         IN  IF st.processed >= limit THEN st
             ELSE [mem |-> b.mem, currTime |-> b.currTime,
                   processed |-> IF b.outcome = "uploaded"
                                 THEN st.processed + 1 ELSE st.processed]

\* a whole run on a store and an answer of the hosting service, under the
\* request, the directory and the clock of the current run
WholeRun(vs, answer) ==
    LET fs    == [n \in FileNames |-> IF n \in run.present THEN Big ELSE NoFile]
        start == StartClock(env.startDate, Baseline(vs, answer), run.now, run.host,
                            ScheduleSlots).t
    IN  WholeLoop(vs, Len(vs), start, env.limit, fs, env.rejects).mem

\* the instants another world has in place of an ignored item's publishAt
OtherTimes == {100, 7000}

\* the stored items whose publishAt is not to count
Ignored(vs) ==
    { k \in 1..Len(vs) : vs[k].IgnoreCalc /\ vs[k].PublishAt # NoPublishAt }

\* the uploads made before the current run, and the same with the upload of a
\* file carrying the instant t
UploadsBefore == SelectSeq(uploads, LAMBDA u : u.run < run.runs)
UploadsWith(file, t) ==
    [n \in 1..Len(UploadsBefore) |->
        IF UploadsBefore[n].file = file
        THEN [UploadsBefore[n] EXCEPT !.publishAt = t] ELSE UploadsBefore[n]]

\* the answer the current run got, in the world where the upload of the file
\* carried the instant t
AnswerWith(file, t) ==
    IF run.answer = env.hosted THEN env.hosted
    ELSE HostingAnswer(TRUE, env.hosted.items
                               \o Reported(UploadsWith(file, t), Len(UploadsBefore)))

\* C24: a finished run is the run function on the store and the answer it
\* loaded, and gives every item the publishAt it would have given it in a
\* world that differs only in the publishAt of one item with ignoreCalc =
\* true: in the store, and in what the hosting service reports of that item
\* once it has been uploaded.
C24_IgnoredTimeHasNoInfluence ==
    run.pc = "done" =>
       /\ run.mem = WholeRun(run.loaded, run.answer)
       /\ \A k \in Ignored(run.loaded) : \A t \in OtherTimes :
             LET other == WholeRun([run.loaded EXCEPT ![k].PublishAt = t],
                                   AnswerWith(run.loaded[k].FileName, t))
             IN  \A j \in (1..Len(run.loaded)) \ {k} :
                    other[j].PublishAt = run.mem[j].PublishAt

\* the items the loop takes as manual: they keep their publishAt
KeepsTime(v) == v.IsManual /\ v.PublishAt # NoPublishAt

\* the automatic items the current run has scheduled and uploaded, and the
\* manual items with a publishAt that counts which it has processed
Scheduled == { j \in run.sent : ~KeepsTime(run.loaded[j]) }
Barriers ==
    { i \in run.sent \cup run.failed :
        KeepsTime(run.loaded[i]) /\ ~run.loaded[i].IgnoreCalc }

\* C25: an automatic item scheduled after a processed manual item whose
\* publishAt counts gets a later publishAt than that item's, and no
\* automatic item gets the publishAt of a manual item of the store whose
\* publishAt counts.
C25_ManualTimesAreBarriers ==
    run.pc \in {"loop", "done"} =>
       \A j \in Scheduled :
          /\ \A i \in Barriers :
                i < j => run.mem[j].PublishAt > run.loaded[i].PublishAt
          /\ \A i \in 1..Len(run.loaded) :
                (KeepsTime(run.loaded[i]) /\ ~run.loaded[i].IgnoreCalc) =>
                   run.mem[j].PublishAt # run.loaded[i].PublishAt

\* C26: the publishAt values a run gives to automatic items increase
\* strictly in store order, and each is later than the baseline of the run:
\* the hosting service's latest publish time and every stored publishAt
\* that counts.
C26_SlotsIncreaseAfterBaseline ==
    run.pc \in {"loop", "done"} =>
       /\ \A i \in Scheduled : \A j \in Scheduled :
             i < j => run.mem[i].PublishAt < run.mem[j].PublishAt
       /\ \A j \in Scheduled :
             /\ run.mem[j].PublishAt > HostingLatest(run.answer)
             /\ \A i \in 1..Len(run.loaded) :
                   (~run.loaded[i].IgnoreCalc /\ run.loaded[i].PublishAt # NoPublishAt)
                      => run.mem[j].PublishAt > run.loaded[i].PublishAt

(***************************************************************************)
(* Properties of the store (StoreSpec)                                     *)
(***************************************************************************)
\* a step that served an upsert: a download request carrying meta_json
Upserted == lastOp'.op = "upsert" /\ lastOp'.n = lastOp.n + 1

\* the item of an upsert request: its file name is the meta's, or the
\* request's when the meta has none
IncomingFileName(req) ==
    IF req.Meta.v.FileName # "" THEN req.Meta.v.FileName ELSE req.Filename

\* C11: an upsert of an item whose fileName a stored item has leaves the
\* number of entries as it is and puts the incoming item in that entry's place.
C11_UpsertReplacesInPlace ==
    [][Upserted =>
         LET req == lastOp'.req
             F   == { j \in 1..Len(videos) : videos[j].FileName = IncomingFileName(req) }
         IN  F # {} =>
               /\ Len(videos') = Len(videos)
               /\ \A j \in F :
                    /\ videos'[j].FileName = IncomingFileName(req)
                    /\ videos'[j].UniqueID = req.Meta.v.UniqueID
                    /\ videos'[j].Title = req.Meta.v.Title]_vars

\* the entries an upsert matches: the same non-empty id or the same file name
Matched(vs, req) ==
    { j \in 1..Len(vs) :
        \/ vs[j].FileName = IncomingFileName(req)
        \/ vs[j].UniqueID # NoID /\ vs[j].UniqueID = req.Meta.v.UniqueID }

\* C12: an upsert that matches a stored item keeps the item's downloadUrl
\* when neither the incoming item nor the request has one, and stores the
\* supplied one otherwise (the request's when both supply one).  The link
\* kept by the upsert is what the handler persists when it is not empty; an
\* empty one may be filled by the back-fill that follows in the handler.
C12_UpsertKeepsOrOverridesURL ==
    [][(Upserted /\ Matched(videos, lastOp'.req) # {}) =>
         LET req == lastOp'.req
             j   == Min(Matched(videos, req))
         IN  /\ req.URL # "" => videos'[j].DownloadURL = req.URL
             /\ (req.URL = "" /\ req.Meta.v.DownloadURL # "") =>
                   videos'[j].DownloadURL = req.Meta.v.DownloadURL
             /\ (req.URL = "" /\ req.Meta.v.DownloadURL = "") =>
                   /\ MetadataFirst(videos, req).videos[j].DownloadURL
                         = videos[j].DownloadURL
                   /\ videos[j].DownloadURL # "" =>
                         videos'[j].DownloadURL = videos[j].DownloadURL]_vars

\* an upsert without a link replaced an item that had one, and the link is
\* still there
C12_Witness ==
    /\ lastOp.op = "upsert"
    /\ lastOp.req.URL = "" /\ lastOp.req.Meta.v.DownloadURL = ""
    /\ Matched(lastOp.before, lastOp.req) # {}
    /\ LET j == Min(Matched(lastOp.before, lastOp.req))
       IN  /\ lastOp.before[j].DownloadURL = "u1"
           /\ videos[j].DownloadURL = "u1"
           /\ videos[j].Title = lastOp.req.Meta.v.Title
           /\ videos[j].Title # lastOp.before[j].Title

\* C13: no two stored items have the same fileName.
C13_FileNamesUnique ==
    \A i \in 1..Len(videos) : \A j \in 1..Len(videos) :
       i # j => videos[i].FileName # videos[j].FileName

\* a step that deleted the items of a file name
Deleted(name) ==
    lastOp'.op = "delete" /\ lastOp'.n = lastOp.n + 1 /\ lastOp'.file = name

\* C14: an item that is uploaded = true in the persisted store stays in it
\* with uploaded, publishAt, isManual and ignoreCalc as they are, unless it
\* is deleted.
C14_UploadedIsTerminal ==
    [][\A i \in 1..Len(videos) :
          videos[i].Uploaded =>
             \/ Deleted(videos[i].FileName)
             \/ \E j \in 1..Len(videos') :
                   /\ videos'[j].FileName = videos[i].FileName
                   /\ videos'[j].Uploaded
                   /\ videos'[j].PublishAt = videos[i].PublishAt
                   /\ videos'[j].IsManual = videos[i].IsManual
                   /\ videos'[j].IgnoreCalc = videos[i].IgnoreCalc]_vars

\* a step that served a manual schedule request
ManualServed == lastOp'.op = "manual" /\ lastOp'.n = lastOp.n + 1

SlotTimed(vs) ==
    \A i \in 1..Len(vs) :
       (~vs[i].IsManual /\ vs[i].PublishAt # NoPublishAt) =>
          IsSlotInstant(ScheduleSlots, vs[i].PublishAt)

\* a pass of the batch run's loop that gave the item a publishAt
Assigned ==
    /\ run.pc = "loop" /\ run'.pc = "loop" /\ run'.i = run.i + 1
    /\ run'.mem[run.i].PublishAt # run.mem[run.i].PublishAt

\* C27: no request takes the persisted store from a state where every
\* non-manual item with a publishAt has it on a configured slot to a state
\* where one has not, and a batch run gives a slot only to items with
\* isManual = false.
C27_AutomaticTimesAreSlots ==
    [][/\ SlotTimed(videos) => SlotTimed(videos')
       /\ Assigned => ~run.mem[run.i].IsManual]_vars

\* the entries with the incoming item's identifier, when it has one
SameID(vs, req) ==
    { j \in 1..Len(vs) :
        req.Meta.v.UniqueID # NoID /\ vs[j].UniqueID = req.Meta.v.UniqueID }

\* C28: when a stored item has the incoming item's non-empty identifier, an
\* upsert replaces an item with that identifier and leaves every other item,
\* one with the incoming fileName included, as it is.
C28_UpsertMatchesIDFirst ==
    [][(Upserted /\ SameID(videos, lastOp'.req) # {}) =>
         \E i \in SameID(videos, lastOp'.req) :
            /\ Len(videos') = Len(videos)
            /\ videos'[i].UniqueID = lastOp'.req.Meta.v.UniqueID
            /\ videos'[i].FileName = IncomingFileName(lastOp'.req)
            /\ videos'[i].Title = lastOp'.req.Meta.v.Title
            /\ \A j \in 1..Len(videos) : j # i => videos'[j] = videos[j]]_vars

\* where an item is in its life: pending, scheduled (it has a publishAt),
\* uploaded
Stage(v) == IF v.Uploaded THEN 2 ELSE IF v.PublishAt # NoPublishAt THEN 1 ELSE 0

\* the hosting service has received the item, with the publishAt it has
Received(ups, v) ==
    \E k \in 1..Len(ups) :
       ups[k].file = v.FileName /\ ups[k].publishAt = v.PublishAt

\* C36: an item goes from pending to scheduled to uploaded to archived and
\* never back: a step persists an item as uploaded only when the hosting
\* service has received it with the publishAt it has, which is not empty; a
\* file goes to the archive only when the hosting service has received it;
\* and no step takes a stored item to an earlier stage.
C36_LifecycleGoesForward ==
    [][/\ \A j \in 1..Len(videos') :
             (/\ videos'[j].Uploaded
              /\ \A i \in 1..Len(videos) :
                    videos[i].FileName = videos'[j].FileName => ~videos[i].Uploaded) =>
                /\ videos'[j].PublishAt # NoPublishAt
                /\ Received(uploads', videos'[j])
       /\ \A name \in archive' \ archive :
             \E k \in 1..Len(uploads') : uploads'[k].file = name
       /\ \A i \in 1..Len(videos) :
             (\E j \in 1..Len(videos') : videos'[j].FileName = videos[i].FileName) =>
                \E j \in 1..Len(videos') :
                   /\ videos'[j].FileName = videos[i].FileName
                   /\ Stage(videos'[j]) >= Stage(videos[i])]_vars

\* C37: the publishAt of a manual schedule request is the instant at which
\* the clocks of Asia/Taipei show the wall-clock time of the request, the
\* instant a configured slot of that wall-clock time has.
C37_ManualTimeIsTaipeiWallClock ==
    [][(/\ ManualServed
        /\ lastOp'.at # NoPublishAt
        /\ \E i \in 1..Len(videos) : videos[i].FileName = lastOp'.file) =>
          \E i \in 1..Len(videos') :
             /\ videos'[i].FileName = lastOp'.file
             /\ videos'[i].PublishAt = DateInTaipei(0, 0, lastOp'.at)]_vars

\* C40: every persisted item with uploaded = true has a publishAt.
C40_UploadedHasPublishAt ==
    \A i \in 1..Len(videos) :
       videos[i].Uploaded => videos[i].PublishAt # NoPublishAt

\* a batch run has uploaded an item a history sync had made: manual, without
\* a publishAt when the run found it, and now with one
C40_Witness ==
    /\ run.pc = "done"
    /\ \E i \in 1..Len(videos) :
          /\ i <= Len(run.loaded)
          /\ run.loaded[i].IsManual /\ run.loaded[i].PublishAt = NoPublishAt
          /\ ~run.loaded[i].Uploaded
          /\ videos[i].Uploaded /\ videos[i].PublishAt # NoPublishAt

(***************************************************************************)
(* Properties of the store under concurrent clients (RaceSpec)             *)
(***************************************************************************)
\* a request for a deletion has been served
DeleteServed == lastOp'.op = "delete" /\ lastOp'.n = lastOp.n + 1

\* every item of vs is still in ws, under its fileName or its identifier
StillStored(vs, ws) ==
    \A i \in 1..Len(vs) : \E j \in 1..Len(ws) :
       \/ ws[j].FileName = vs[i].FileName
       \/ vs[i].UniqueID # NoID /\ ws[j].UniqueID = vs[i].UniqueID

\* C31: a deletion removes exactly the items with the given fileName and
\* leaves the others as they are and in their order; when no item has the
\* fileName the store is not rewritten and the request is answered with an
\* error; no step that is not a deletion takes an item out of the store.
C31_OnlyDeleteRemoves ==
    [][/\ DeleteServed =>
            /\ videos' = SelectSeq(videos, LAMBDA v : v.FileName # lastOp'.file)
            /\ lastOp'.flag = (\E i \in 1..Len(videos) :
                                  videos[i].FileName = lastOp'.file)
            /\ ~lastOp'.flag => videos' = videos
       /\ ~DeleteServed => StillStored(videos, videos')]_vars

\* a pass of the batch run's loop that saved the store
RunSaved ==
    run.pc = "loop" /\ run'.pc = "loop" /\ run'.i = run.i + 1 /\ run'.last = "uploaded"

\* the persisted entries that are not as the run last loaded or saved them:
\* what other requests have persisted since
ForeignChanges ==
    { j \in 1..Len(videos) : j > Len(run.saved) \/ videos[j] # run.saved[j] }

\* C32: a save of the batch run keeps what other requests have persisted
\* while the run was in progress: every entry they wrote, the run's own item
\* apart, is still there after the save, and no entry they deleted is back.
C32_RunSaveKeepsForeignChanges ==
    [][RunSaved =>
         LET name == run.mem[run.i].FileName
         IN  /\ \A j \in ForeignChanges :
                   videos[j].FileName # name =>
                      \E k \in 1..Len(videos') : videos'[k] = videos[j]
             /\ \A k \in 1..Len(videos') : \E j \in 1..Len(videos) :
                   videos'[k].FileName = videos[j].FileName]_vars

\* an orchestration entry point has been served: a manual schedule or a
\* second batch run
Orchestrated == lastOp' # lastOp /\ lastOp'.op \in {"manual", "run"}

\* no file went from a batch run to the hosting service twice, and no two
\* files with the same publishAt
UploadsApart(ups) ==
    \A i, j \in 1..Len(ups) :
       (i < j /\ ups[i].run > 0 /\ ups[j].run > 0) =>
          ups[i].file # ups[j].file /\ ups[i].publishAt # ups[j].publishAt

\* C33: no orchestration is served while a batch run is in its loop, and
\* the uploads of all the runs are of different items at different publish
\* times.
C33_OneOrchestrationAtATime ==
    [][/\ Orchestrated => run.pc # "loop"
       /\ UploadsApart(uploads')]_vars

(***************************************************************************)
(* Properties of the history sync (SyncSpec)                               *)
(***************************************************************************)
\* the end of the groups _\d+ that follow position e
RECURSIVE GroupsEnd(_, _)
GroupsEnd(s, e) ==
    IF IsAt(s, e + 1, "_") /\ DigitRun(s, e + 2) >= e + 2
    THEN GroupsEnd(s, DigitRun(s, e + 2))
    ELSE e

\* the whole id a text carries: the leftmost S2 followed by all its groups
\* of digits, NoID when there is none
FullID(s) ==
    LET starts == { i \in 1..Len(s) :
                      /\ IsAt(s, i, "S") /\ IsAt(s, i + 1, "2")
                      /\ GroupsEnd(s, i + 1) > i + 1 }
    IN  IF starts = {} THEN NoID
        ELSE SubSeq(s, Min(starts), GroupsEnd(s, Min(starts) + 1))

\* a history sync has read the feed of the mailbox
Synchronised == lastOp.op = "sync" /\ lastOp.flag /\ lastOp.n = 1

\* the completed records with a link that carry the id
RecordsOf(id) ==
    { n \in 1..Len(mailbox) :
        /\ mailbox[n].Kind = Complete /\ mailbox[n].URL # ""
        /\ FullID(mailbox[n].DisplayStr) = id }

\* C38: after a history sync every stored item whose id a completed record
\* with a link carries has the link of such a record as its downloadUrl,
\* and no entry has been made for a record whose id a stored item had.
C38_SyncWritesLinkOfKnownID ==
    Synchronised =>
       /\ \A i \in 1..Len(videos) :
             (videos[i].UniqueID # NoID /\ RecordsOf(videos[i].UniqueID) # {}) =>
                \E n \in RecordsOf(videos[i].UniqueID) :
                   videos[i].DownloadURL = mailbox[n].URL
       /\ \A i \in 1..Len(lastOp.before) :
             (/\ lastOp.before[i].UniqueID # NoID
              /\ RecordsOf(lastOp.before[i].UniqueID) # {}) =>
                \A j \in (Len(lastOp.before) + 1)..Len(videos) :
                   \A n \in RecordsOf(lastOp.before[i].UniqueID) :
                      videos[j].DownloadURL # mailbox[n].URL

\* C39: the identifier a history sync takes from a record is the whole id
\* its text carries: the item stored for the record has that id, and so
\* records of ids generated at different seconds have different items.
C39_ExtractedIDIsWholeID ==
    Synchronised =>
       \A n \in 1..Len(mailbox) :
          (/\ mailbox[n].Kind = Complete /\ mailbox[n].URL # ""
           /\ URLFileID[mailbox[n].URL] # ""
           /\ FullID(mailbox[n].DisplayStr) # NoID) =>
             \E i \in 1..Len(videos) :
                videos[i].UniqueID = FullID(mailbox[n].DisplayStr)

====
